---------------------------- MODULE Spec2Model ----------------------------
(***************************************************************************)
(* Stack detection and array pitch estimation of istale/is_uniflow_test.   *)
(*                                                                         *)
(* Two programs are modelled side by side:                                 *)
(*   klayout_sample/analyze_array_pitch.py          ("simple")             *)
(*   klayout_sample/analyze_array_pitch_chatgpt.py  ("robust")             *)
(*                                                                         *)
(* Numbers.  The programs compute with floats; the model computes with     *)
(* exact rationals on a lattice.  Every coordinate is an integer number of *)
(* model units, rectangle corners are multiples of 4 units, so centres     *)
(* ((x1+x2)*0.5) are even and medians of differences of centres            *)
(* ((a+b)/2) are integers.  Quotients are never formed: round(a/b) is      *)
(* computed from the pair (a, b) with Python's round-half-to-even, and     *)
(* comparisons against fractions are cross-multiplied.  The 1e-12 floors   *)
(* of the code are far below one model unit: max(t, 1e-12) is t whenever   *)
(* t > 0 on the lattice.                                                   *)
(***************************************************************************)
EXTENDS Integers, Sequences, FiniteSets, TLC

VARIABLES
    fn,       \* the function under execution
    args,     \* its arguments
    ret,      \* its outcome: [st |-> "pending" | "returned" | "raised", val |-> ...]
    pc,       \* position inside main()
    L,        \* the loaded table: [via |-> <<Rect>>, m1 |-> <<Rect>>, m2 |-> <<Rect>>]
    stacks,   \* matched stacks, in emission order
    pitch_x,  \* None or Some(v)
    pitch_y,  \* None or Some(v)
    cols,     \* result of assign_columns inside pitch_y_by_columns
    diffs,    \* the candidate differences of the last pitch_1d_axis_aligned
    dy_all,   \* the pooled differences of the last pitch_y_by_columns
    history,  \* the runs that ended before this one: <<[args, ret]>>, oldest first
    exit_code, \* None, or Some(status) once the command-line wrapper has exited
    effects,  \* klayout_api: what was done to the layout and to the files, in order
    accumulator, \* evaluate_pipeline: None or Some(result of the last step)
    logs,     \* evaluate_pipeline: the log lines
    index,    \* evaluate_pipeline: the number of the step at hand
    stack,    \* instance enumeration: the work stack, top last
    records,  \* instance enumeration: the emitted records
    summary   \* instance enumeration: the summary dict

\* the state of the pitch programs, and that of klayout_api and run_pipeline
mainVars == <<L, stacks, pitch_x, pitch_y, cols, diffs, dy_all, history, exit_code>>
apiVars == <<effects, accumulator, logs, index, stack, records, summary>>

vars == <<fn, args, ret, pc, L, stacks, pitch_x, pitch_y, cols, diffs, dy_all, history, exit_code,
          effects, accumulator, logs, index, stack, records, summary>>

-----------------------------------------------------------------------------
(* Python values *)

None == << >>
Some(v) == <<v>>

Pending == [st |-> "pending", val |-> None]
Returned(v) == [st |-> "returned", val |-> v]
Raised(e) == [st |-> "raised", val |-> e]

\* the text of a CSV field that should hold a number: Some(n), a numeral of value
\* n, or None, a text on which float() raises ValueError
IsNumeral(t) == t # None
float(t) == t[1]

\* every float() applied to the row succeeds
RowParses(r) ==
    /\ IsNumeral(r.bbox_x1) /\ IsNumeral(r.bbox_y1)
    /\ IsNumeral(r.bbox_x2) /\ IsNumeral(r.bbox_y2)

Abs(x) == IF x < 0 THEN -x ELSE x
Min2(a, b) == IF a < b THEN a ELSE b
Max2(a, b) == IF a > b THEN a ELSE b
SetMin(S) == CHOOSE x \in S : \A y \in S : x <= y
SetMax(S) == CHOOSE x \in S : \A y \in S : x >= y
Range(s) == {s[i] : i \in DOMAIN s}

\* F(v) with v computed once: LET x == v IN F(x), for a v that is used many times
Let1(v, F(_)) == CHOOSE r \in {F(x) : x \in {v}} : TRUE

\* round(num/den) for den > 0: Python 3 rounds an exact half to the even integer.
PyRound(num, den) ==
    LET q == num \div den
        r == num - q * den
    IN  IF 2 * r < den THEN q
        ELSE IF 2 * r > den THEN q + 1
        ELSE IF q % 2 = 0 THEN q ELSE q + 1

\* sorted(S) for a finite set of integers
SortedSet(S) ==
    Let1(S, LAMBDA T :
        IF T = {} THEN << >>
        ELSE Let1(SetMin(T), LAMBDA lo :
                SelectSeq([i \in 1..(SetMax(T) - lo + 1) |-> lo + i - 1],
                          LAMBDA v : v \in T)))

\* sorted(s)[k] (1-based) for a list of integers
SortedAt(s, k) ==
    CHOOSE v \in Range(s) :
        /\ Cardinality({i \in DOMAIN s : s[i] < v}) < k
        /\ Cardinality({i \in DOMAIN s : s[i] <= v}) >= k

\* statistics.median: middle element, or the mean of the two middle elements
Median(s) ==
    Let1(s, LAMBDA t :
        IF Len(t) % 2 = 1 THEN SortedAt(t, (Len(t) + 1) \div 2)
        ELSE (SortedAt(t, Len(t) \div 2) + SortedAt(t, Len(t) \div 2 + 1)) \div 2)

-----------------------------------------------------------------------------
(* Program constants *)

MAX_GAP == 3
BIN_DEN_X == 100
BIN_DEN_Y == 20
TOL_NUM == 3
TOL_DEN == 20
N_TRIAL_REFS == 6
MIN_UNIQUE == 3

-----------------------------------------------------------------------------
(* pitch_1d_axis_aligned *)

\* the inner loop started one too far: range(i+2, ...)
DiffsOfSkipAdjacent(u, i, max_gap) ==
    [t \in 1..(Min2(i + 1 + max_gap, Len(u)) - (i + 1)) |-> u[i + 1 + t] - u[i]]

\* the window one index too wide: range(i+1, min(i+2+max_gap, n))
DiffsOfOneTooFar(u, i, max_gap) ==
    [t \in 1..(Min2(i + 1 + max_gap, Len(u)) - i) |-> u[i + t] - u[i]]

\* the inner loop for one i: u[j] - u[i] for j in range(i+1, min(i+1+max_gap, n))
DiffsOf(u, i, max_gap) ==
    [t \in 1..(Min2(i + max_gap, Len(u)) - i) |-> u[i + t] - u[i]]

\* diffs, in the order the double loop appends them, for i in lo..hi
\* (split in halves: the concatenation is the same and the evaluation stays shallow)
RECURSIVE DiffsBetween(_, _, _, _)
DiffsBetween(u, lo, hi, max_gap) ==
    IF lo > hi THEN << >>
    ELSE IF lo = hi THEN DiffsOf(u, lo, max_gap)
    ELSE LET mid == (lo + hi) \div 2
         IN  DiffsBetween(u, lo, mid, max_gap) \o DiffsBetween(u, mid + 1, hi, max_gap)

PairDiffs(u, max_gap) == DiffsBetween(u, 1, Len(u), max_gap)

\* round(d / bin_w) with bin_w = max(rng/den, 1e-12).  With rng = 0 the bin is the
\* floor itself and the key is d counted in floors: distinct d, distinct keys.
BinKey(d, rng, den) == IF rng > 0 THEN PyRound(d * den, rng) ELSE d

\* bins[k]: the members of bucket k, in insertion order
Bucket(ds, rng, den, k) ==
    LET Hit(d) == BinKey(d, rng, den) = k
    IN  SelectSeq(ds, Hit)

\* the last key, in insertion order, of a longest bucket
BestKeyLastSeen(ds, rng, den) ==
    LET keys == [i \in DOMAIN ds |-> BinKey(ds[i], rng, den)]
        K == Range(keys)
        size == [k \in K |-> Cardinality({i \in DOMAIN ds : keys[i] = k})]
        seen == [k \in K |-> SetMin({i \in DOMAIN ds : keys[i] = k})]
    IN  CHOOSE k \in K :
            \A o \in K \ {k} : size[o] < size[k] \/ (size[o] = size[k] /\ seen[k] > seen[o])

\* max(bins, key=len): the first key, in insertion order, of a longest bucket
BestKey(ds, rng, den) ==
    LET keys == [i \in DOMAIN ds |-> BinKey(ds[i], rng, den)]
        K == Range(keys)
        size == [k \in K |-> Cardinality({i \in DOMAIN ds : keys[i] = k})]
        seen == [k \in K |-> SetMin({i \in DOMAIN ds : keys[i] = k})]
    IN  CHOOSE k \in K :
            \A o \in K \ {k} : size[o] < size[k] \/ (size[o] = size[k] /\ seen[k] < seen[o])

ModeMedian(ds, rng, den) ==
    Let1(ds, LAMBDA d : Median(Bucket(d, rng, den, BestKey(d, rng, den))))

\* len(values) tested in place of len(u): duplicates counted
pitch_1d_locals_counts_duplicates(values, max_gap) ==
    Let1(SortedSet(Range(values)), LAMBDA u :
        IF Len(values) < MIN_UNIQUE
        THEN [u |-> u, diffs |-> << >>, ret |-> Raised("unique")]
        ELSE Let1(PairDiffs(u, max_gap), LAMBDA ds :
                [u |-> u, diffs |-> ds,
                 ret |-> IF ds = << >> THEN Raised("ValueError")
                         ELSE Returned(ModeMedian(ds, u[Len(u)] - u[1], BIN_DEN_X))]))

\* the locals of pitch_1d_axis_aligned when it ends: u, diffs (empty when the
\* function raises before the loop) and the outcome
pitch_1d_locals(values, max_gap) ==
    Let1(SortedSet(Range(values)), LAMBDA u :
        IF Len(u) < MIN_UNIQUE
        THEN [u |-> u, diffs |-> << >>, ret |-> Raised("unique")]
        ELSE Let1(PairDiffs(u, max_gap), LAMBDA ds :
                [u |-> u, diffs |-> ds,
                 ret |-> Returned(ModeMedian(ds, u[Len(u)] - u[1], BIN_DEN_X))]))

pitch_1d_axis_aligned(values, max_gap) == pitch_1d_locals(values, max_gap).ret

-----------------------------------------------------------------------------
(* assign_columns *)

\* n = round((x - x_ref)/pitch_x)
ColumnIndex(x, x_ref, px) == PyRound(x - x_ref, px)

\* the column counted from 1: x_hat one pitch too far
WithinTolNextColumn(x, x_ref, px) ==
    LET n == PyRound(x - x_ref, px)
        x_hat == x_ref + (n + 1) * px
    IN  TOL_DEN * Abs(x - x_hat) <= TOL_NUM * px

\* no tolerance test: every point goes to its nearest column
WithinTolForced(x, x_ref, px) == TRUE

\* abs(x - x_hat) <= tol, with x_hat = x_ref + n*pitch_x and
\* tol = max(pitch_x * 0.15, 1e-12); for pitch_x > 0 the floor never decides.
WithinTol(x, x_ref, px) ==
    LET n == ColumnIndex(x, x_ref, px)
        x_hat == x_ref + n * px
    IN  TOL_DEN * Abs(x - x_hat) <= TOL_NUM * px

\* cmap: a list of [n, idxs].  The loop over enumerate(xs) appends i to cmap[n]
\* when x is within tolerance, so the keys come in the order of the first point
\* of each column and each idxs is ascending (points are numbered from 1).
ColumnMap(xs, px, x_ref) ==
    LET col(i) == ColumnIndex(xs[i], x_ref, px)
    IN  Let1({i \in DOMAIN xs : WithinTol(xs[i], x_ref, px)}, LAMBDA kept :
        Let1(SortedSet({i \in kept : \A j \in kept : j < i => col(j) # col(i)}),
             LAMBDA firsts :
                [c \in DOMAIN firsts |->
                    [n |-> col(firsts[c]),
                     idxs |-> SortedSet({i \in kept : col(i) = col(firsts[c])})]]))

RECURSIVE SumSeq(_)
SumSeq(s) == IF s = << >> THEN 0 ELSE s[1] + SumSeq(Tail(s))

\* score = (len(sizes), -pstdev(sizes) if len(sizes) > 1 else 0.0), kept as
\* <<m, m*sum(s^2) - sum(s)^2>>: pstdev^2 = second / m^2, and the second
\* components are only ever compared between scores with the same m.
Score(cmap) ==
    Let1(cmap, LAMBDA cm :
        LET sizes == [c \in DOMAIN cm |-> Len(cm[c].idxs)]
            m == Len(cm)
            sq == [c \in DOMAIN cm |-> Len(cm[c].idxs) * Len(cm[c].idxs)]
        IN  <<m, IF m > 1 THEN m * SumSeq(sq) - SumSeq(sizes) * SumSeq(sizes) ELSE 0>>)

\* tuple comparison score > best_score
ScoreGreater(a, b) == a[1] > b[1] \/ (a[1] = b[1] /\ a[2] < b[2])

\* sorted(set(xs))[:6]
DefaultTrialRefs(xs) ==
    Let1(SortedSet(Range(xs)), LAMBDA u : SubSeq(u, 1, Min2(N_TRIAL_REFS, Len(u))))

\* the loop keeping a candidate when its score is >= the best so far: the last of
\* the candidates with the largest score is kept
BestRefLastWins(xs, px, refs) ==
    Let1({<<k, Score(ColumnMap(xs, px, refs[k]))>> : k \in DOMAIN refs}, LAMBDA scored :
        LET score(k) == (CHOOSE e \in scored : e[1] = k)[2]
        IN  CHOOSE b \in DOMAIN refs :
                /\ \A k \in DOMAIN refs : ~ScoreGreater(score(k), score(b))
                /\ \A k \in (b + 1)..Len(refs) : ScoreGreater(score(b), score(k)))

\* the loop over trial_refs keeps a candidate only when its score is greater
\* than the best so far: the index kept at the end is the first one whose score
\* no other candidate exceeds
BestRef(xs, px, refs) ==
    Let1({<<k, Score(ColumnMap(xs, px, refs[k]))>> : k \in DOMAIN refs}, LAMBDA scored :
        LET score(k) == (CHOOSE e \in scored : e[1] = k)[2]
        IN  CHOOSE b \in DOMAIN refs :
                /\ \A k \in DOMAIN refs : ~ScoreGreater(score(k), score(b))
                /\ \A k \in 1..(b - 1) : ScoreGreater(score(b), score(k)))

assign_columns_refs(xs, px, refs) ==
    IF refs = << >> THEN [map |-> None, ref |-> None]
    ELSE Let1(BestRef(xs, px, refs), LAMBDA b :
            [map |-> ColumnMap(xs, px, refs[b]), ref |-> Some(refs[b])])

assign_columns(xs, px) ==
    Let1(xs, LAMBDA x : Let1(DefaultTrialRefs(x), LAMBDA refs : assign_columns_refs(x, px, refs)))

-----------------------------------------------------------------------------
(* pitch_y_by_columns *)

\* consecutive differences of sorted({ys[i] for i in idxs})
ColumnDiffs(ys, idxs) ==
    Let1(SortedSet({ys[idxs[k]] : k \in DOMAIN idxs}), LAMBDA col_y :
        [t \in 1..(Len(col_y) - 1) |-> col_y[t + 1] - col_y[t]])

\* dy_all taken over all the points at once, as if they were one column
DyAllIgnoringColumns(ys, cmap) == ColumnDiffs(ys, [k \in DOMAIN ys |-> k])

\* dy_all, columns visited in cols.items() order
RECURSIVE DyAllFrom(_, _, _)
DyAllFrom(ys, cmap, c) ==
    IF c > Len(cmap) THEN << >>
    ELSE (IF Len(cmap[c].idxs) < 2 THEN << >> ELSE ColumnDiffs(ys, cmap[c].idxs))
         \o DyAllFrom(ys, cmap, c + 1)

DyAll(ys, cmap) == DyAllFrom(ys, cmap, 1)

\* the part of pitch_y_by_columns after assign_columns: dy_all and the outcome
pitch_y_locals(ys, cmap) ==
    Let1(DyAll(ys, cmap), LAMBDA pool :
        [dy_all |-> pool,
         ret |-> IF pool = << >> THEN Raised("column spacings")
                 ELSE Returned(ModeMedian(pool,
                                          SetMax(Range(pool)) - SetMin(Range(pool)),
                                          BIN_DEN_Y))])

pitch_y_from_columns(ys, cmap) == pitch_y_locals(ys, cmap).ret

\* the whole of pitch_y_by_columns: cols, dy_all and the outcome; without a point
\* assign_columns returns (None, None) and cols.items() raises AttributeError
pitch_y_by_columns_locals(xs, ys, px) ==
    Let1(assign_columns(xs, px), LAMBDA cr :
        IF cr.ref = None
        THEN [cols |-> cr, dy_all |-> << >>, ret |-> Raised("AttributeError")]
        ELSE Let1(pitch_y_locals(ys, cr.map), LAMBDA loc :
                [cols |-> cr, dy_all |-> loc.dy_all, ret |-> loc.ret]))

pitch_y_by_columns(xs, ys, px) == pitch_y_by_columns_locals(xs, ys, px).ret

-----------------------------------------------------------------------------
(* Geometry *)

VIA_LAYER == 100
M1_LAYER == 200
M2_LAYER == 300

\* overlap testing only whether a ends before b begins
overlap_one_sided(a, b, eps) ==
    ~(a.x2 < b.x1 - eps \/ a.y2 < b.y1 - eps)

\* analyze_array_pitch_chatgpt.py
overlap(a, b, eps) ==
    ~(a.x2 < b.x1 - eps \/ b.x2 < a.x1 - eps \/ a.y2 < b.y1 - eps \/ b.y2 < a.y1 - eps)

\* analyze_array_pitch.py
overlaps(a, b) ==
    ~(a.x2 <= b.x1 \/ a.x1 >= b.x2 \/ a.y2 <= b.y1 \/ a.y1 >= b.y2)

\* Rect.center and bbox_center: corners are multiples of 4, the halves are exact
center(r) == <<(r.x1 + r.x2) \div 2, (r.y1 + r.y2) \div 2>>

Xs(points) == [i \in DOMAIN points |-> points[i].center[1]]
Ys(points) == [i \in DOMAIN points |-> points[i].center[2]]

-----------------------------------------------------------------------------
(* analyze_array_pitch_chatgpt.py: load_layers and the steps of main *)

\* x1, y1, x2, y2 of a row as float() reads them
Floats(r) ==
    [id |-> r.id,
     x1 |-> float(r.bbox_x1), y1 |-> float(r.bbox_y1),
     x2 |-> float(r.bbox_x2), y2 |-> float(r.bbox_y2)]

\* one row of the table as load_layers stores it: corners swapped into order
NormRect(r) ==
    [id |-> r.id,
     x1 |-> Min2(r.x1, r.x2), y1 |-> Min2(r.y1, r.y2),
     x2 |-> Max2(r.x1, r.x2), y2 |-> Max2(r.y1, r.y2)]

LayerRows(rows, layer) ==
    LET On(r) == r.layer = layer
    IN  SelectSeq(rows, On)

\* float() is not guarded: the first row it cannot read ends the load
load_layers(rows) ==
    IF \E i \in DOMAIN rows : ~RowParses(rows[i]) THEN Raised("ValueError")
    ELSE LET norm(rs) == [i \in DOMAIN rs |-> NormRect(Floats(rs[i]))]
         IN  Returned([via |-> norm(LayerRows(rows, VIA_LAYER)),
                       m1 |-> norm(LayerRows(rows, M1_LAYER)),
                       m2 |-> norm(LayerRows(rows, M2_LAYER))])

\* hit_m1 and hit_m2
ValidVia(v, m1, m2, eps) ==
    /\ \E i \in DOMAIN m1 : overlap(v, m1[i], eps)
    /\ \E i \in DOMAIN m2 : overlap(v, m2[i], eps)

\* valid: the centres of the vias that hit both metals, in via order
ValidCenters(T, eps) ==
    LET Ok(v) == ValidVia(v, T.m1, T.m2, eps)
        hits == SelectSeq(T.via, Ok)
    IN  [i \in DOMAIN hits |-> [center |-> center(hits[i])]]

Report(n, px, py, w) ==
    [ok |-> TRUE, stack_count |-> n, array_pitch_x |-> px, array_pitch_y |-> py,
     warning |-> w]

Robust == fn = "main" /\ args.prog = "robust"

robust_load ==
    /\ Robust /\ pc = "Load"
    /\ IF ~args.exists
       THEN /\ pc' = "Failed"
            /\ ret' = Raised("FileNotFoundError")
            /\ L' = L
       ELSE \E T \in {load_layers(args.rows)} :
                IF T.st = "raised"
                THEN pc' = "Failed" /\ ret' = T /\ L' = L
                ELSE /\ L' = T.val
                     /\ IF T.val.via = << >> \/ T.val.m1 = << >> \/ T.val.m2 = << >>
                        THEN pc' = "Failed" /\ ret' = Raised("SystemExit: missing layer")
                        ELSE pc' = "CollectStacks" /\ ret' = ret
    /\ UNCHANGED <<fn, args, stacks, pitch_x, pitch_y, cols, diffs, dy_all, history, exit_code, apiVars>>

robust_collect ==
    /\ Robust /\ pc = "CollectStacks"
    /\ stacks' = ValidCenters(L, args.eps)
    /\ pc' = "CheckSufficiency"
    /\ UNCHANGED <<fn, args, ret, L, pitch_x, pitch_y, cols, diffs, dy_all, history, exit_code, apiVars>>

robust_check ==
    /\ Robust /\ pc = "CheckSufficiency"
    /\ IF stacks = << >>
       THEN pc' = "Failed" /\ ret' = Raised("SystemExit: no valid via")
       ELSE pc' = "EstimateX" /\ ret' = ret
    /\ UNCHANGED <<fn, args, L, stacks, pitch_x, pitch_y, cols, diffs, dy_all, history, exit_code, apiVars>>

\* the X estimate handed straight to the Y estimate, columns never assigned
robust_estimate_x_skips_columns ==
    /\ Robust /\ pc = "EstimateX"
    /\ \E loc \in {pitch_1d_locals(Xs(stacks), MAX_GAP)} :
           /\ diffs' = loc.diffs
           /\ IF loc.ret.st = "raised"
              THEN pc' = "Failed" /\ ret' = loc.ret /\ pitch_x' = pitch_x
              ELSE pc' = "EstimateY" /\ ret' = ret /\ pitch_x' = Some(loc.ret.val)
    /\ cols' = [map |-> << >>, ref |-> None]
    /\ UNCHANGED <<fn, args, L, stacks, pitch_y, dy_all, history, exit_code, apiVars>>

robust_estimate_x ==
    /\ Robust /\ pc = "EstimateX"
    /\ \E loc \in {pitch_1d_locals(Xs(stacks), MAX_GAP)} :
           /\ diffs' = loc.diffs
           /\ IF loc.ret.st = "raised"
              THEN pc' = "Failed" /\ ret' = loc.ret /\ pitch_x' = pitch_x
              ELSE pc' = "AssignColumns" /\ ret' = ret /\ pitch_x' = Some(loc.ret.val)
    /\ UNCHANGED <<fn, args, L, stacks, pitch_y, cols, dy_all, history, exit_code, apiVars>>

robust_assign_columns ==
    /\ Robust /\ pc = "AssignColumns"
    /\ cols' = assign_columns(Xs(stacks), pitch_x[1])
    /\ pc' = "EstimateY"
    /\ UNCHANGED <<fn, args, ret, L, stacks, pitch_x, pitch_y, diffs, dy_all, history, exit_code, apiVars>>

robust_estimate_y ==
    /\ Robust /\ pc = "EstimateY"
    /\ \E loc \in {pitch_y_locals(Ys(stacks), cols.map)} :
           /\ dy_all' = loc.dy_all
           /\ IF loc.ret.st = "raised"
              THEN pc' = "Failed" /\ ret' = loc.ret /\ pitch_y' = pitch_y
              ELSE /\ pc' = "Done"
                   /\ pitch_y' = Some(loc.ret.val)
                   /\ ret' = Returned(Report(Len(stacks), pitch_x, Some(loc.ret.val), None))
    /\ UNCHANGED <<fn, args, L, stacks, pitch_x, cols, diffs, history, exit_code, apiVars>>

-----------------------------------------------------------------------------
(* analyze_array_pitch.py: parse_rows, find_stacks, compute_pitch, main *)

WARNING == "Insufficient matching stacks to determine pitch"

\* a row on which a float() raises is skipped; the others are kept as read, in
\* the order of the file: no corner is swapped
parse_rows(rows) ==
    LET kept == SelectSeq(rows, RowParses)
    IN  [i \in DOMAIN kept |->
            [id |-> kept[i].id, cell_name |-> kept[i].cell_name, layer |-> kept[i].layer,
             x1 |-> float(kept[i].bbox_x1), y1 |-> float(kept[i].bbox_y1),
             x2 |-> float(kept[i].bbox_x2), y2 |-> float(kept[i].bbox_y2)]]

\* grouped[layer] with the test on cell_name left out
GroupedIgnoringCell(rows, target_cell, layer) ==
    LET Keep(r) == r.layer = layer
    IN  SelectSeq(rows, Keep)

\* grouped[layer], rows of another cell skipped
Grouped(rows, target_cell, layer) ==
    LET Keep(r) == r.layer = layer /\ ~(target_cell # "" /\ r.cell_name # target_cell)
    IN  SelectSeq(rows, Keep)

\* best_match with >= in place of >: the last of several equal areas wins
RECURSIVE BestMatchLastWins(_, _, _)
BestMatchLastWins(via, cands, k) ==
    IF k = 0 THEN [best |-> None, best_area |-> None]
    ELSE LET sofar == BestMatchLastWins(via, cands, k - 1)
             c == cands[k]
             overlap_x1 == Max2(via.x1, c.x1)
             overlap_y1 == Max2(via.y1, c.y1)
             overlap_x2 == Min2(via.x2, c.x2)
             overlap_y2 == Min2(via.y2, c.y2)
             area == (overlap_x2 - overlap_x1) * (overlap_y2 - overlap_y1)
         IN  IF overlap_x2 <= overlap_x1 \/ overlap_y2 <= overlap_y1 THEN sofar
             ELSE IF sofar.best_area = None \/ area >= sofar.best_area[1]
                  THEN [best |-> Some(c), best_area |-> Some(area)]
                  ELSE sofar

\* best_match after the first k candidates: [best, best_area], None for -inf
RECURSIVE BestMatchUpTo(_, _, _)
BestMatchUpTo(via, cands, k) ==
    IF k = 0 THEN [best |-> None, best_area |-> None]
    ELSE LET sofar == BestMatchUpTo(via, cands, k - 1)
             c == cands[k]
             overlap_x1 == Max2(via.x1, c.x1)
             overlap_y1 == Max2(via.y1, c.y1)
             overlap_x2 == Min2(via.x2, c.x2)
             overlap_y2 == Min2(via.y2, c.y2)
             area == (overlap_x2 - overlap_x1) * (overlap_y2 - overlap_y1)
         IN  IF overlap_x2 <= overlap_x1 \/ overlap_y2 <= overlap_y1 THEN sofar
             ELSE IF sofar.best_area = None \/ area > sofar.best_area[1]
                  THEN [best |-> Some(c), best_area |-> Some(area)]
                  ELSE sofar

best_match(via, cands) == BestMatchUpTo(via, cands, Len(cands)).best

\* the body of the loop over via_list: the stack appended for this via, if any
StackOf(via, m1_list, m2_list) ==
    LET Hit(m) == overlaps(via, m)
        m1 == best_match(via, SelectSeq(m1_list, Hit))
        m2 == best_match(via, SelectSeq(m2_list, Hit))
    IN  IF m1 # None /\ m2 # None
        THEN <<[via |-> via, m1 |-> m1[1], m2 |-> m2[1], center |-> center(via)]>>
        ELSE << >>

RECURSIVE StacksUpTo(_, _, _, _)
StacksUpTo(via_list, m1_list, m2_list, k) ==
    IF k = 0 THEN << >>
    ELSE StacksUpTo(via_list, m1_list, m2_list, k - 1)
         \o StackOf(via_list[k], m1_list, m2_list)

find_stacks(rows, target_cell) ==
    LET via_list == Grouped(rows, target_cell, VIA_LAYER)
    IN  StacksUpTo(via_list,
                   Grouped(rows, target_cell, M1_LAYER),
                   Grouped(rows, target_cell, M2_LAYER),
                   Len(via_list))

\* min_spacing falling back on a unit pitch where it has no gap to measure
min_spacing_or_default(values) ==
    IF Len(values) < 2 THEN Some(1)
    ELSE LET gaps == {values[i] - values[i - 1] : i \in 2..Len(values)}
             pos == {g \in gaps : g > 0}
         IN  IF pos = {} THEN Some(1) ELSE Some(SetMin(pos))

\* min_spacing keeping the largest gap instead of the smallest
min_spacing_largest_gap(values) ==
    IF Len(values) < 2 THEN None
    ELSE LET gaps == {values[i] - values[i - 1] : i \in 2..Len(values)}
             pos == {g \in gaps : g > 0}
         IN  IF pos = {} THEN None ELSE Some(SetMax(pos))

\* min_spacing over a sorted list of distinct values
min_spacing(values) ==
    IF Len(values) < 2 THEN None
    ELSE LET gaps == {values[i] - values[i - 1] : i \in 2..Len(values)}
             pos == {g \in gaps : g > 0}
         IN  IF pos = {} THEN None ELSE Some(SetMin(pos))

\* compute_pitch returning the two pitches in the other order
compute_pitch_axes_swapped(st) ==
    IF Len(st) < 2 THEN <<None, None>>
    ELSE <<min_spacing(SortedSet(Range(Ys(st)))), min_spacing(SortedSet(Range(Xs(st))))>>

compute_pitch(st) ==
    IF Len(st) < 2 THEN <<None, None>>
    ELSE <<min_spacing(SortedSet(Range(Xs(st)))), min_spacing(SortedSet(Range(Ys(st))))>>

Simple == fn = "main" /\ args.prog = "simple"

simple_load ==
    /\ Simple /\ pc = "Load"
    /\ IF ~args.exists
       THEN /\ pc' = "Failed"
            /\ ret' = Returned([ok |-> FALSE, error |-> "Input CSV not found"])
            /\ L' = L
       ELSE /\ pc' = "CollectStacks"
            /\ L' = parse_rows(args.rows)
            /\ ret' = ret
    /\ UNCHANGED <<fn, args, stacks, pitch_x, pitch_y, cols, diffs, dy_all, history, exit_code, apiVars>>

\* find_stacks appending to the stacks a caller left behind
simple_collect_keeps_stacks ==
    /\ Simple /\ pc = "CollectStacks"
    /\ stacks' = stacks \o find_stacks(L, args.cell_name)
    /\ pc' = "ComputePitch"
    /\ UNCHANGED <<fn, args, ret, L, pitch_x, pitch_y, cols, diffs, dy_all, history, exit_code, apiVars>>

simple_collect ==
    /\ Simple /\ pc = "CollectStacks"
    /\ stacks' = find_stacks(L, args.cell_name)
    /\ pc' = "ComputePitch"
    /\ UNCHANGED <<fn, args, ret, L, pitch_x, pitch_y, cols, diffs, dy_all, history, exit_code, apiVars>>

simple_compute_pitch ==
    /\ Simple /\ pc = "ComputePitch"
    /\ LET p == compute_pitch(stacks)
       IN  /\ pitch_x' = p[1]
           /\ pitch_y' = p[2]
           /\ ret' = Returned(Report(Len(stacks), p[1], p[2],
                                     IF p[1] = None \/ p[2] = None
                                     THEN Some(WARNING) ELSE None))
    /\ pc' = "Done"
    /\ UNCHANGED <<fn, args, L, stacks, cols, diffs, dy_all, history, exit_code, apiVars>>

\* the command-line wrapper with sys.exit(0) whatever main returned
simple_exit_always_zero ==
    /\ Simple /\ pc \in {"Done", "Failed"}
    /\ exit_code = None
    /\ exit_code' = Some(0)
    /\ UNCHANGED <<fn, args, ret, pc, L, stacks, pitch_x, pitch_y, cols, diffs, dy_all, history, apiVars>>

\* the command-line wrapper after main has returned: sys.exit(0 if result.get("ok") else 1)
simple_exit ==
    /\ Simple /\ pc \in {"Done", "Failed"}
    /\ exit_code = None
    /\ exit_code' = Some(IF ret.val.ok THEN 0 ELSE 1)
    /\ UNCHANGED <<fn, args, ret, pc, L, stacks, pitch_x, pitch_y, cols, diffs, dy_all, history, apiVars>>

-----------------------------------------------------------------------------
(* Inputs of the estimator on its own *)

MaxLen == 4
MaxCoord == 4
MaxGridN == 6
BigGridN == 202

GridPitches == {2, 4, 6}
InterleavePitches == {4, 8, 12}

RECURSIVE SeqsUpTo(_, _)
SeqsUpTo(S, n) ==
    IF n = 0 THEN {<< >>}
    ELSE LET shorter == SeqsUpTo(S, n - 1)
         IN  shorter \cup {Append(s, v) : s \in {t \in shorter : Len(t) = n - 1}, v \in S}

\* {0, p, 2p, ..., (n-1)p}, ascending
Grid(p, n) == [i \in 1..n |-> (i - 1) * p]

\* {0, p, 2p, 3p} united with {0.5p, 1.5p, 2.5p}, the first progression first
Interleaved(p) == <<0, p, 2 * p, 3 * p, p \div 2, 3 * (p \div 2), 5 * (p \div 2)>>

\* max_gap: the default and two narrower windows
MaxGaps == {1, 2, MAX_GAP}

PitchInputs ==
    SeqsUpTo({2 * k : k \in 0..MaxCoord}, MaxLen)
    \cup {Grid(p, n) : p \in GridPitches, n \in (3..MaxGridN) \cup {BigGridN}}
    \cup {Interleaved(p) : p \in InterleavePitches}

ApiIdle ==
    /\ effects = << >>
    /\ accumulator = << >>
    /\ logs = << >>
    /\ index = 0
    /\ stack = << >>
    /\ records = << >>
    /\ summary = << >>

Idle ==
    /\ pc = "Idle"
    /\ L = << >>
    /\ stacks = << >>
    /\ pitch_x = None
    /\ pitch_y = None
    /\ cols = << >>
    /\ diffs = << >>
    /\ dy_all = << >>
    /\ history = << >>
    /\ exit_code = None
    /\ ApiIdle

InitPitch ==
    /\ fn = "pitch_1d_axis_aligned"
    /\ args \in {[values |-> v, max_gap |-> g] : v \in PitchInputs, g \in MaxGaps}
    /\ ret = Pending
    /\ Idle

CallPitch ==
    /\ fn = "pitch_1d_axis_aligned"
    /\ ret = Pending
    /\ \E loc \in {pitch_1d_locals(args.values, args.max_gap)} :
           /\ diffs' = loc.diffs
           /\ ret' = loc.ret
    /\ UNCHANGED <<fn, args, pc, L, stacks, pitch_x, pitch_y, cols, dy_all, history, exit_code, apiVars>>

NextPitch == CallPitch

SpecPitch == InitPitch /\ [][NextPitch]_vars

-----------------------------------------------------------------------------
(* Inputs of main: tables of vias and metals *)

MaxVias == 4
MaxM1 == 2
MaxM2 == 2

ViaXs == <<0, 16, 32>>
ViaYs == <<0, 16>>

Box(x1, y1, x2, y2) == [x1 |-> x1, y1 |-> y1, x2 |-> x2, y2 |-> y2]

\* the via sites, 8 by 8, column by column
ViaSites ==
    [k \in 1..(Len(ViaXs) * Len(ViaYs)) |->
        LET x == ViaXs[(k - 1) \div Len(ViaYs) + 1]
            y == ViaYs[((k - 1) % Len(ViaYs)) + 1]
        IN  Box(x, y, x + 8, y + 8)]

\* metal-A: a plate over every site, a strip over half of site (0,0) and all of
\* site (16,0), a strip that only touches the sites (0,0) and (16,0)
M1Boxes == {Box(-4, -4, 44, 28), Box(4, 0, 24, 8), Box(8, 0, 16, 8)}

\* metal-B: a plate over every site, a plate right of the first column
M2Boxes == {Box(-4, -4, 44, 28), Box(16, 0, 36, 24)}

ViaLists ==
    {LET In(k) == k \in S
         idx == SelectSeq([k \in 1..Len(ViaSites) |-> k], In)
     IN  [i \in DOMAIN idx |-> ViaSites[idx[i]]] :
        S \in {T \in SUBSET (1..Len(ViaSites)) : Cardinality(T) <= MaxVias}}

Row(id, layer, b) ==
    [id |-> id, cell_name |-> "top", layer |-> layer,
     bbox_x1 |-> Some(b.x1), bbox_y1 |-> Some(b.y1),
     bbox_x2 |-> Some(b.x2), bbox_y2 |-> Some(b.y2)]

\* the table: the via rows, then the metal-A rows, then the metal-B rows; id is the
\* line of the row
Table(vs, as, bs) ==
    [i \in 1..(Len(vs) + Len(as) + Len(bs)) |->
        IF i <= Len(vs) THEN Row(i, VIA_LAYER, vs[i])
        ELSE IF i <= Len(vs) + Len(as) THEN Row(i, M1_LAYER, as[i - Len(vs)])
        ELSE Row(i, M2_LAYER, bs[i - Len(vs) - Len(as)])]

\* the rows of one metal layer: distinct boxes, in every order
MetalLists(boxes, n) ==
    {s \in SeqsUpTo(boxes, n) : \A i, j \in DOMAIN s : s[i] = s[j] => i = j}

Tables ==
    {Table(vs, as, bs) : vs \in ViaLists, as \in MetalLists(M1Boxes, MaxM1),
                         bs \in MetalLists(M2Boxes, MaxM2)}

\* three vias under one plate of each metal
PlainTables ==
    {Table(vs, <<Box(-4, -4, 44, 28)>>, <<Box(-4, -4, 44, 28)>>) :
        vs \in {v \in ViaLists : Len(v) = 3}}

CoordFields == {"bbox_x1", "bbox_y1", "bbox_x2", "bbox_y2"}

\* the table with field f of row i holding no numeral
Garbled(t, i, f) == [t EXCEPT ![i] = [@ EXCEPT ![f] = None]]

MalformedTables ==
    UNION {{Garbled(t, i, f) : i \in DOMAIN t, f \in CoordFields} : t \in PlainTables}

\* the table with the corners of row i written in the other order, in X, in Y or
\* in both
Flipped(t, i, fx, fy) ==
    [t EXCEPT ![i] = [@ EXCEPT !.bbox_x1 = IF fx THEN t[i].bbox_x2 ELSE @,
                               !.bbox_x2 = IF fx THEN t[i].bbox_x1 ELSE @,
                               !.bbox_y1 = IF fy THEN t[i].bbox_y2 ELSE @,
                               !.bbox_y2 = IF fy THEN t[i].bbox_y1 ELSE @]]

FlippedTables ==
    UNION {{Flipped(t, i, fx, fy) : i \in DOMAIN t, fx \in BOOLEAN, fy \in BOOLEAN} :
              t \in PlainTables}

\* the table with the rows of the lines in S belonging to the cell "sub"
InCell(t, S) == [i \in DOMAIN t |-> IF i \in S THEN [t[i] EXCEPT !.cell_name = "sub"] ELSE t[i]]

\* one row, the two metal rows, or every row in the other cell
CellTables ==
    UNION {{InCell(t, {i}) : i \in DOMAIN t} \cup {InCell(t, {4, 5}), InCell(t, DOMAIN t)} :
              t \in PlainTables}

\* payload["cell_name"]: a cell of the table, a cell that is not in it, no filter
CellFilters == {"top", "sub", "other", ""}

\* Scenario A, in units of 0.01: a grid of 4 columns 16 apart and 3 rows 24 apart;
\* at each site a via 8 by 8 inside a metal-A and a metal-B rectangle 16 by 16
\* that reach no other via
ScenarioVia(p) == Box(16 * p[1], 24 * p[2], 16 * p[1] + 8, 24 * p[2] + 8)
ScenarioMetal(p) == Box(16 * p[1] - 4, 24 * p[2] - 4, 16 * p[1] + 12, 24 * p[2] + 12)

\* the 12 sites column by column, and row by row
ScenarioOrders ==
    {[k \in 1..12 |-> <<(k - 1) \div 3, (k - 1) % 3>>],
     [k \in 1..12 |-> <<(k - 1) % 4, (k - 1) \div 4>>]}

\* the rows layer by layer, and site by site (via, metal-A, metal-B)
ScenarioByLayer(o) ==
    Table([k \in DOMAIN o |-> ScenarioVia(o[k])],
          [k \in DOMAIN o |-> ScenarioMetal(o[k])],
          [k \in DOMAIN o |-> ScenarioMetal(o[k])])

ScenarioBySite(o) ==
    [k \in 1..(3 * Len(o)) |->
        LET site == o[(k - 1) \div 3 + 1]
        IN  IF (k - 1) % 3 = 0 THEN Row(k, VIA_LAYER, ScenarioVia(site))
            ELSE IF (k - 1) % 3 = 1 THEN Row(k, M1_LAYER, ScenarioMetal(site))
            ELSE Row(k, M2_LAYER, ScenarioMetal(site))]

ScenarioATables ==
    {ScenarioByLayer(o) : o \in ScenarioOrders} \cup {ScenarioBySite(o) : o \in ScenarioOrders}

\* vias at unequal distances under one plate of each metal: centres at
\* x = 4, 20, 52 and y = 4, 36
UnevenSites == <<Box(0, 0, 8, 8), Box(16, 0, 24, 8), Box(48, 0, 56, 8), Box(0, 32, 8, 40)>>

UnevenTables ==
    {Table([k \in 1..Len(o) |-> UnevenSites[o[k]]],
           <<Box(-4, -4, 60, 44)>>, <<Box(-4, -4, 60, 44)>>) :
        o \in {<<1, 2, 3, 4>>, <<4, 3, 2, 1>>, <<3, 1, 2>>, <<1, 4>>}}

MainInputs ==
    {[prog |-> p, exists |-> TRUE, rows |-> t, cell_name |-> "top", eps |-> 0] :
        p \in {"simple", "robust"},
        t \in Tables \cup MalformedTables \cup FlippedTables \cup ScenarioATables}
    \cup {[prog |-> "simple", exists |-> TRUE, rows |-> t, cell_name |-> c, eps |-> 0] :
        t \in CellTables \cup PlainTables, c \in CellFilters}
    \cup {[prog |-> "simple", exists |-> TRUE, rows |-> t, cell_name |-> "top", eps |-> 0] :
        t \in UnevenTables}
    \cup {[prog |-> p, exists |-> FALSE, rows |-> << >>, cell_name |-> "top", eps |-> 0] :
        p \in {"simple", "robust"}}

Init ==
    /\ fn = "main"
    /\ args \in MainInputs
    /\ ret = Pending
    /\ pc = "Load"
    /\ L = << >>
    /\ stacks = << >>
    /\ pitch_x = None
    /\ pitch_y = None
    /\ cols = << >>
    /\ diffs = << >>
    /\ dy_all = << >>
    /\ history = << >>
    /\ exit_code = None
    /\ ApiIdle

Next ==
    \/ robust_load
    \/ robust_collect
    \/ robust_check
    \/ robust_estimate_x
    \/ robust_assign_columns
    \/ robust_estimate_y
    \/ simple_load
    \/ simple_collect
    \/ simple_compute_pitch
    \/ simple_exit

Spec == Init /\ [][Next]_vars

-----------------------------------------------------------------------------
(* Inputs of assign_columns on its own *)

MaxPts == 3
MaxX == 6

ColPitches == {2, 4, 7, 20}
ExplicitRefs == {<<0>>, <<1, 0>>}

NonEmptySeqsUpTo(S, n) == SeqsUpTo(S, n) \ {<< >>}

\* more than 6 distinct X: the seventh and later ones are no default candidates
LongXs == {<<0, 1, 2, 4, 5, 11, 13>>, <<13, 11, 0, 1, 2, 4, 5>>, <<5, 4, 3, 2, 1, 0, 13>>}

ColumnInputs ==
    {[xs |-> xs, pitch_x |-> px, trial_refs |-> tr] :
        xs \in NonEmptySeqsUpTo(0..MaxX, MaxPts) \cup LongXs, px \in ColPitches,
        tr \in {None} \cup {Some(r) : r \in ExplicitRefs}}

InitColumns ==
    /\ fn = "assign_columns"
    /\ args \in ColumnInputs
    /\ ret = Pending
    /\ Idle

CallAssignColumns ==
    /\ fn = "assign_columns"
    /\ ret = Pending
    /\ ret' = Returned(IF args.trial_refs = None
                       THEN assign_columns(args.xs, args.pitch_x)
                       ELSE assign_columns_refs(args.xs, args.pitch_x, args.trial_refs[1]))
    /\ UNCHANGED <<fn, args, pc, L, stacks, pitch_x, pitch_y, cols, diffs, dy_all, history, exit_code, apiVars>>

NextColumns == CallAssignColumns

SpecColumns == InitColumns /\ [][NextColumns]_vars

-----------------------------------------------------------------------------
(* Inputs of the two overlap predicates on their own *)

MaxRectX == 3
MaxRectY == 2
MaxEps == 1

Rects ==
    {Box(x1, y1, x2, y2) : x1 \in 0..MaxRectX, x2 \in 0..MaxRectX,
                           y1 \in 0..MaxRectY, y2 \in 0..MaxRectY}

\* rectangles as the table holds them after load_layers
NormalRects == {r \in Rects : r.x1 <= r.x2 /\ r.y1 <= r.y2}

\* rectangles as a caller may build them: corners in either order, width or
\* height zero
AnyRects == {Box(x1, y1, x2, y2) : x1 \in 0..2, x2 \in 0..2, y1 \in 0..1, y2 \in 0..1}

OverlapInputs ==
    {[a |-> a, b |-> b, eps |-> e] : a \in NormalRects, b \in NormalRects, e \in 0..MaxEps}
    \cup {[a |-> a, b |-> b, eps |-> 0] : a \in AnyRects, b \in AnyRects}

InitOverlap ==
    /\ \/ fn = "overlap" /\ args \in OverlapInputs
       \/ fn = "overlaps" /\ args \in {i \in OverlapInputs : i.eps = 0}
    /\ ret = Pending
    /\ Idle

CallOverlap ==
    /\ fn = "overlap"
    /\ ret = Pending
    /\ ret' = Returned(overlap(args.a, args.b, args.eps))
    /\ UNCHANGED <<fn, args, pc, L, stacks, pitch_x, pitch_y, cols, diffs, dy_all, history, exit_code, apiVars>>

CallOverlaps ==
    /\ fn = "overlaps"
    /\ ret = Pending
    /\ ret' = Returned(overlaps(args.a, args.b))
    /\ UNCHANGED <<fn, args, pc, L, stacks, pitch_x, pitch_y, cols, diffs, dy_all, history, exit_code, apiVars>>

NextOverlap == CallOverlap \/ CallOverlaps

SpecOverlap == InitOverlap /\ [][NextOverlap]_vars

-----------------------------------------------------------------------------
(* Properties of pitch_1d_axis_aligned, under SpecPitch *)

PitchCalled == fn = "pitch_1d_axis_aligned" /\ ret # Pending

\* called with max_gap left at its default
PitchCalledDefault == PitchCalled /\ args.max_gap = MAX_GAP

\* {0, p, 2p, 3p} united with {0.5p, 1.5p, 2.5p}
InterleavedSet(p) == {k * p : k \in 0..3} \cup {(2 * k + 1) * (p \div 2) : k \in 0..2}

IsInterleaved(p) == Range(args.values) = InterleavedSet(p)

IsGrid(S, p, n) == n >= 3 /\ p > 0 /\ S = {k * p : k \in 0..(n - 1)}

GridPitchOf(S) == SetMax(S) \div (Cardinality(S) - 1)

\* C8, as stated: on the coordinates {0, p, ..., (n-1)p}, n >= 3, p > 0, in any
\* order and with or without duplicates, the estimator returns p.
C8_ExactGridRecovery ==
    PitchCalledDefault =>
        LET S == Range(args.values)
        IN  (Cardinality(S) >= 3 /\ IsGrid(S, GridPitchOf(S), Cardinality(S)))
                => ret = Returned(GridPitchOf(S))

\* C13: the estimator raises, and returns no value, whenever its input has fewer
\* than 3 distinct values, duplicates not counted, and returns a value for every
\* input with at least 3 distinct values.
C13_FailsIffFewDistinct ==
    PitchCalled =>
        /\ Cardinality(Range(args.values)) < 3 => ret = Raised("unique")
        /\ Cardinality(Range(args.values)) >= 3 => ret.st = "returned"

\* C13: three or more values, fewer than three distinct ones, and the call raised
C13_Witness ==
    /\ PitchCalled
    /\ Len(args.values) >= 3
    /\ Cardinality(Range(args.values)) < 3
    /\ ret.st = "raised"

\* the index pairs i < j of u at distance at most max_gap
NearPairs(u, max_gap) ==
    {p \in (DOMAIN u) \X (DOMAIN u) : p[1] < p[2] /\ p[2] - p[1] <= max_gap}

\* C14: the candidate differences are exactly the multiset of u[j] - u[i] over the
\* pairs i < j of the sorted distinct values at index distance at most max_gap,
\* each pair once, and every candidate is strictly positive.
C14_CandidateDifferences ==
    (PitchCalled /\ ret.st = "returned") =>
        LET u == SortedSet(Range(args.values))
            pairs == NearPairs(u, args.max_gap)
            D == Range(diffs) \cup {u[p[2]] - u[p[1]] : p \in pairs}
        IN  /\ Len(diffs) = Cardinality(pairs)
            /\ \A d \in D :
                  Cardinality({k \in DOMAIN diffs : diffs[k] = d})
                      = Cardinality({p \in pairs : u[p[2]] - u[p[1]] = d})
            /\ \A k \in DOMAIN diffs : diffs[k] > 0

\* C14: a call that returned with more distinct values than one window spans, so
\* that some pair is too far apart to contribute
C14_Witness ==
    /\ PitchCalled /\ ret.st = "returned"
    /\ Cardinality(Range(args.values)) >= args.max_gap + 2
    /\ Len(diffs) < (Cardinality(Range(args.values)) * (Cardinality(Range(args.values)) - 1)) \div 2

\* range(u): the largest value less the smallest
RangeOfValues == SetMax(Range(args.values)) - SetMin(Range(args.values))

\* round(d / bin_width) with bin_width = rng * 0.01
KeyOf(d, rng) == PyRound(d * BIN_DEN_X, rng)

\* the candidates that open a bucket: no earlier candidate has their key
BucketFirsts(rng) ==
    {k \in DOMAIN diffs : \A j \in 1..(k - 1) : KeyOf(diffs[j], rng) # KeyOf(diffs[k], rng)}

BucketSize(k, rng) ==
    Cardinality({j \in DOMAIN diffs : KeyOf(diffs[j], rng) = KeyOf(diffs[k], rng)})

\* the median of the bucket that candidate k is in
BucketMedian(k, rng) ==
    Median(SelectSeq(diffs, LAMBDA d : KeyOf(d, rng) = KeyOf(diffs[k], rng)))

\* candidate b opens the bucket that is used: no bucket is larger, and every
\* bucket opened earlier is smaller
OpensModeBucket(b, rng) ==
    Let1(BucketFirsts(rng), LAMBDA firsts :
        /\ b \in firsts
        /\ \A k \in firsts : BucketSize(k, rng) <= BucketSize(b, rng)
        /\ \A k \in firsts : k < b => BucketSize(k, rng) < BucketSize(b, rng))

\* C15: the estimator returns the median of the candidates whose key
\* round(d/bin_width) is the key of the bucket holding the most candidates; among
\* several largest buckets the one whose first member was generated first is used.
C15_ModeBucketMedian ==
    (PitchCalled /\ ret.st = "returned") =>
        Let1(RangeOfValues, LAMBDA rng :
            Let1(BucketFirsts(rng), LAMBDA firsts :
                \E b \in firsts :
                    /\ \A k \in firsts : BucketSize(k, rng) <= BucketSize(b, rng)
                    /\ \A k \in firsts : k < b => BucketSize(k, rng) < BucketSize(b, rng)
                    /\ ret.val = BucketMedian(b, rng)))

\* C15: two largest buckets of the same size, and the value returned is the median
\* of the one opened first
C15_Witness ==
    /\ PitchCalled /\ ret.st = "returned"
    /\ Let1(RangeOfValues, LAMBDA rng :
          \E b, c \in BucketFirsts(rng) :
              /\ b < c
              /\ OpensModeBucket(b, rng)
              /\ BucketSize(c, rng) = BucketSize(b, rng)
              /\ ret.val = BucketMedian(b, rng)
              /\ ret.val # BucketMedian(c, rng))

-----------------------------------------------------------------------------
(* Properties of the overlap predicates, under SpecOverlap *)

\* Overlap(a, b, eps) as specified: the projections overlap by more than eps on
\* both axes
StrictOverlap(a, b, eps) ==
    ~(a.x2 <= b.x1 + eps \/ b.x2 <= a.x1 + eps \/ a.y2 <= b.y1 + eps \/ b.y2 <= a.y1 + eps)

\* C4, as stated: for all rectangles a, b and every eps >= 0 the overlap predicate
\* is true iff NOT(a.x2 <= b.x1+eps OR b.x2 <= a.x1+eps OR a.y2 <= b.y1+eps OR
\* b.y2 <= a.y1+eps); with eps = 0 rectangles sharing only an edge or a corner do
\* not overlap.
C4_OverlapIff ==
    (fn \in {"overlap", "overlaps"} /\ ret.st = "returned") =>
        (ret.val <=> StrictOverlap(args.a, args.b, args.eps))

\* C22: overlap symmetry: for all rectangles a and b and every eps, overlap(a, b)
\* equals overlap(b, a), for overlap of the robust script and for overlaps of the
\* simple one.
C22_OverlapSymmetric ==
    /\ (fn = "overlap" /\ ret.st = "returned") =>
          ret.val = overlap(args.b, args.a, args.eps)
    /\ (fn = "overlaps" /\ ret.st = "returned") =>
          ret.val = overlaps(args.b, args.a)

\* C22: two different rectangles, the first with its corners in the other order,
\* found to overlap
C22_Witness ==
    /\ fn \in {"overlap", "overlaps"} /\ ret.st = "returned" /\ ret.val = TRUE
    /\ args.a # args.b
    /\ args.a.x1 > args.a.x2

-----------------------------------------------------------------------------
(* Properties of the two programs, under Spec and FairRobust *)

Terminal == pc \in {"Done", "Failed"}

\* C2, as stated: a run with at least 2 matched stacks in which a pitch could not
\* be estimated on some axis ends in a hard failure, never as a successful report
\* with a null pitch or the warning.
C2_EstimatorFailureIsFatal ==
    (fn = "main" /\ Terminal /\ Len(stacks) >= 2 /\ (pitch_x = None \/ pitch_y = None))
        => (pc = "Failed" /\ ret.st = "raised")

\* C3, as stated: with fewer than 2 matched stacks the sufficiency check goes
\* directly to Done, no estimator runs, both pitches are none and the report
\* carries the warning; the run never ends in Failed.
C3_TooFewStacksIsSoft ==
    [][(fn = "main" /\ pc \in {"CheckSufficiency", "ComputePitch"} /\ Len(stacks) < 2)
          => /\ pc' = "Done"
             /\ pitch_x' = None /\ pitch_y' = None
             /\ ret'.st = "returned"
             /\ ret'.val.ok
             /\ ret'.val.array_pitch_x = None /\ ret'.val.array_pitch_y = None
             /\ ret'.val.warning # None]_vars

\* the rows of one layer that take part in matching
MatchRows(layer) ==
    IF args.prog = "simple" THEN Grouped(parse_rows(args.rows), args.cell_name, layer)
    ELSE LET rs == LayerRows(SelectSeq(args.rows, RowParses), layer)
         IN  [i \in DOMAIN rs |-> NormRect(Floats(rs[i]))]

\* a via that overlaps, as specified, a metal-A row and a metal-B row
Qualifies(v) ==
    /\ \E i \in DOMAIN MatchRows(M1_LAYER) : StrictOverlap(v, MatchRows(M1_LAYER)[i], 0)
    /\ \E i \in DOMAIN MatchRows(M2_LAYER) : StrictOverlap(v, MatchRows(M2_LAYER)[i], 0)

QualifyingVias ==
    {i \in DOMAIN MatchRows(VIA_LAYER) : Qualifies(MatchRows(VIA_LAYER)[i])}

\* C6, as stated: a stack is emitted only for a via that overlaps a metal-A and a
\* metal-B rectangle: each emitted stack sits on such a via (and, where the stack
\* names its partners, the via overlaps both), at most one stack per via, and no
\* stack at all when no via overlaps a metal-B rectangle.
C6_StackOnlyForOverlappingVia ==
    fn = "main" =>
        /\ Len(stacks) <= Cardinality(QualifyingVias)
        /\ \A k \in DOMAIN stacks :
              \E i \in QualifyingVias : stacks[k].center = center(MatchRows(VIA_LAYER)[i])
        /\ Simple =>
              /\ \A k \in DOMAIN stacks :
                    /\ StrictOverlap(stacks[k].via, stacks[k].m1, 0)
                    /\ StrictOverlap(stacks[k].via, stacks[k].m2, 0)
              /\ \A k, l \in DOMAIN stacks : stacks[k].via.id = stacks[l].via.id => k = l

\* the true intersection area: zero unless both projections overlap
IntersectionArea(a, b) ==
    Max2(0, Min2(a.x2, b.x2) - Max2(a.x1, b.x1)) * Max2(0, Min2(a.y2, b.y2) - Max2(a.y1, b.y1))

\* partner is the best-overlap choice for via among the rows of its layer
BestOverlap(via, partner, layer) ==
    \A i \in DOMAIN MatchRows(layer) :
        LET c == MatchRows(layer)[i]
        IN  /\ IntersectionArea(via, partner) >= IntersectionArea(via, c)
            /\ IntersectionArea(via, partner) = IntersectionArea(via, c) => partner.id <= c.id

\* C7: in find_stacks the metal-A partner of every emitted stack has the largest
\* intersection area with the via among all metal-A rows and is the first row, in
\* input order, that reaches it; likewise the metal-B partner.
C7_BestOverlapFirstWins ==
    Simple =>
        \A k \in DOMAIN stacks :
            /\ stacks[k].m1.layer = M1_LAYER /\ stacks[k].m2.layer = M2_LAYER
            /\ BestOverlap(stacks[k].via, stacks[k].m1, M1_LAYER)
            /\ BestOverlap(stacks[k].via, stacks[k].m2, M2_LAYER)

\* C7: one stack whose partner beat an earlier, smaller overlap, and one stack whose
\* partner was the first of two equal overlaps
C7_Witness ==
    /\ Simple
    /\ \E k \in DOMAIN stacks : \E i \in DOMAIN MatchRows(M1_LAYER) :
          LET c == MatchRows(M1_LAYER)[i]
          IN  /\ c.id < stacks[k].m1.id
              /\ 0 < IntersectionArea(stacks[k].via, c)
              /\ IntersectionArea(stacks[k].via, c) < IntersectionArea(stacks[k].via, stacks[k].m1)
    /\ \E k \in DOMAIN stacks : \E i \in DOMAIN MatchRows(M1_LAYER) :
          LET c == MatchRows(M1_LAYER)[i]
          IN  /\ c.id > stacks[k].m1.id
              /\ IntersectionArea(stacks[k].via, c) = IntersectionArea(stacks[k].via, stacks[k].m1)
    /\ \E k \in DOMAIN stacks : \E i \in DOMAIN MatchRows(M2_LAYER) :
          LET c == MatchRows(M2_LAYER)[i]
          IN  /\ c.id # stacks[k].m2.id
              /\ 0 < IntersectionArea(stacks[k].via, c)
              /\ IntersectionArea(stacks[k].via, c) < IntersectionArea(stacks[k].via, stacks[k].m2)

StageRank(p) ==
    CASE p = "Load" -> 0
      [] p = "CollectStacks" -> 1
      [] p = "CheckSufficiency" -> 2
      [] p = "EstimateX" -> 3
      [] p = "AssignColumns" -> 4
      [] p = "EstimateY" -> 5
      [] p = "Done" -> 6
      [] OTHER -> 7

\* C5: a run of the robust program takes the stages CollectStacks, CheckSufficiency,
\* EstimateX, AssignColumns, EstimateY one after the other, each step going to the
\* next stage or to Failed and never back; pitch_y exists only once pitch_x exists
\* and the columns were assigned with that pitch_x; Done and Failed are final, and
\* every run reaches one of them.
C5_StagesInOrder ==
    /\ [][Robust => \/ pc' = "Failed" /\ pc \notin {"Done", "Failed"}
                    \/ StageRank(pc') = StageRank(pc) + 1 /\ pc' # "Failed"]_vars
    /\ []((Robust /\ pc = "EstimateY") =>
            (pitch_x # None /\ cols = assign_columns(Xs(stacks), pitch_x[1])))
    /\ []((Robust /\ pitch_y # None) =>
            (pc = "Done" /\ pitch_x # None
             /\ cols = assign_columns(Xs(stacks), pitch_x[1])))
    /\ (Robust => <>Terminal)

\* C5: a run that went through every stage and ended in Done
C5_Witness == Robust /\ pc = "Done" /\ pitch_x # None /\ pitch_y # None /\ cols # << >>

-----------------------------------------------------------------------------
(* Properties of assign_columns, under SpecColumns *)

ColumnsCalled == fn = "assign_columns" /\ ret.st = "returned"

\* the columns of the returned map that hold point i, one entry per occurrence
Holders(i) ==
    LET m == ret.val.map
    IN  {<<c, k>> \in (DOMAIN m) \X (1..Len(args.xs)) :
            k \in DOMAIN m[c].idxs /\ m[c].idxs[k] = i}

\* every X is phase + k * pitch_x for one phase
OnLattice == \A i, j \in DOMAIN args.xs : (args.xs[i] - args.xs[j]) % args.pitch_x = 0

\* C9, as stated: when every X is phase + k*pitch_x, each point index is in exactly
\* one column of the returned map, once, and the returned phase differs from the
\* true phase by a whole number of pitches.
C9_ColumnCompleteness ==
    (ColumnsCalled /\ OnLattice) =>
        /\ ret.val.map # None
        /\ \A i \in DOMAIN args.xs : Cardinality(Holders(i)) = 1
        /\ (ret.val.ref[1] - args.xs[1]) % args.pitch_x = 0

\* the candidate phases are X coordinates: the default ones, or given ones that are
OwnPhases ==
    \/ args.trial_refs = None
    \/ \A k \in DOMAIN args.trial_refs[1] : args.trial_refs[1][k] \in Range(args.xs)

\* C9, amended: when every X is phase + k*pitch_x and every candidate phase is one
\* of the X coordinates (as the default candidates are), each point index is in
\* exactly one column of the returned map, once, and the returned phase differs
\* from the true phase by a whole number of pitches.
C9_CompleteForOwnPhases ==
    (ColumnsCalled /\ OnLattice /\ OwnPhases) =>
        /\ ret.val.map # None
        /\ \A i \in DOMAIN args.xs : Cardinality(Holders(i)) = 1
        /\ (ret.val.ref[1] - args.xs[1]) % args.pitch_x = 0

\* C9: lattice points spread over two columns, one of them holding two points, for
\* the default candidates and for given ones
C9_Witness ==
    /\ ColumnsCalled /\ OnLattice /\ OwnPhases
    /\ Len(ret.val.map) = 2
    /\ \E c \in DOMAIN ret.val.map : Len(ret.val.map[c].idxs) = 2

\* point i is a member of column n of the returned map
InColumn(i, n) ==
    \E c \in DOMAIN ret.val.map : ret.val.map[c].n = n /\ Holders(i) # {}
        /\ \E h \in Holders(i) : h[1] = c

ColumnNumbers == (0 - MaxX - 1)..(MaxX + 1) \cup {ret.val.map[c].n : c \in DOMAIN ret.val.map}

\* C10: in the returned map for phase x_ref, x is a member of column n iff
\* n = round((x - x_ref)/pitch_x) and |x - (x_ref + n*pitch_x)| <= pitch_x * 0.15;
\* a point beyond the tolerance is in no column.
C10_MemberIffWithinTolerance ==
    (ColumnsCalled /\ ret.val.ref # None) =>
        LET r == ret.val.ref[1]
            px == args.pitch_x
        IN  \A i \in DOMAIN args.xs : \A n \in ColumnNumbers :
                InColumn(i, n) <=>
                    /\ n = PyRound(args.xs[i] - r, px)
                    /\ TOL_DEN * Abs(args.xs[i] - (r + n * px)) <= TOL_NUM * px

\* C10: a returned map with a point left out and a point accepted off its column
\* centre
C10_Witness ==
    /\ ColumnsCalled /\ ret.val.ref # None
    /\ \E i \in DOMAIN args.xs : Holders(i) = {}
    /\ \E i \in DOMAIN args.xs : \E c \in DOMAIN ret.val.map :
          /\ \E h \in Holders(i) : h[1] = c
          /\ args.xs[i] # ret.val.ref[1] + ret.val.map[c].n * args.pitch_x

\* the candidate phases of the call: the given list, or the first 6 distinct X in
\* ascending order
CandidatePhases ==
    IF args.trial_refs # None THEN args.trial_refs[1]
    ELSE LET X == Range(args.xs)
         IN  [k \in 1..Min2(6, Cardinality(X)) |->
                CHOOSE v \in X : Cardinality({w \in X : w < v}) = k - 1]

\* the points that phase r puts in column n
PointsIn(r, n) ==
    {i \in DOMAIN args.xs :
        /\ n = PyRound(args.xs[i] - r, args.pitch_x)
        /\ TOL_DEN * Abs(args.xs[i] - (r + n * args.pitch_x)) <= TOL_NUM * args.pitch_x}

\* the non-empty columns of phase r
ColumnsOf(r) == {n \in {PyRound(args.xs[i] - r, args.pitch_x) : i \in DOMAIN args.xs} : PointsIn(r, n) # {}}

\* the variance of the column sizes of phase r, times the square of their number:
\* the sum over all pairs of columns of the squared difference of their sizes
Spread(r) ==
    LET ns == SortedSet(ColumnsOf(r))
        d(a, b) == Cardinality(PointsIn(r, ns[a])) - Cardinality(PointsIn(r, ns[b]))
        row(a) == SumSeq([b \in 1..(a - 1) |-> d(a, b) * d(a, b)])
    IN  SumSeq([a \in DOMAIN ns |-> row(a)])

\* the score of phase r1 is lexicographically larger than that of r2: more columns,
\* or as many columns and a smaller standard deviation of their sizes
Outscores(r1, r2) ==
    \/ Cardinality(ColumnsOf(r1)) > Cardinality(ColumnsOf(r2))
    \/ /\ Cardinality(ColumnsOf(r1)) = Cardinality(ColumnsOf(r2))
       /\ Spread(r1) < Spread(r2)

\* the returned map is the column map of phase r
IsMapOf(r) ==
    {<<ret.val.map[c].n, Range(ret.val.map[c].idxs)>> : c \in DOMAIN ret.val.map}
        = {<<n, PointsIn(r, n)>> : n \in ColumnsOf(r)}

-----------------------------------------------------------------------------
(* Inputs of pitch_y_by_columns on its own *)

MaxYPts == 4

\* with pitch_x 4 the points at x = 2 lie between two columns of the phase 0
PointSites == ({0, 4} \X {0, 1, 3}) \cup {<<2, 0>>, <<2, 3>>}
PointPitches == {2, 4}

PitchYInputs ==
    {[points |-> ps, pitch_x |-> px] : ps \in SeqsUpTo(PointSites, MaxYPts), px \in PointPitches}

InitPitchY ==
    /\ fn = "pitch_y_by_columns"
    /\ args \in PitchYInputs
    /\ ret = Pending
    /\ Idle

CallPitchY ==
    /\ fn = "pitch_y_by_columns"
    /\ ret = Pending
    /\ \E loc \in {pitch_y_by_columns_locals([k \in DOMAIN args.points |-> args.points[k][1]],
                                              [k \in DOMAIN args.points |-> args.points[k][2]],
                                              args.pitch_x)} :
           /\ cols' = loc.cols
           /\ dy_all' = loc.dy_all
           /\ ret' = loc.ret
    /\ UNCHANGED <<fn, args, pc, L, stacks, pitch_x, pitch_y, diffs, history, exit_code, apiVars>>

NextPitchY == CallPitchY

SpecPitchY == InitPitchY /\ [][NextPitchY]_vars

PitchYCalled == fn = "pitch_y_by_columns" /\ ret # Pending

\* the distinct Y values of the points of column c of cols
ColumnYs(c) == {args.points[cols.map[c].idxs[k]][2] : k \in DOMAIN cols.map[c].idxs}

\* the neighbours in the sorted distinct Y values of column c: <<c, a, b>> with
\* a < b in the column and no Y of the column between them
ColumnNeighbours ==
    UNION {{<<c, a, b>> : a \in ColumnYs(c), b \in ColumnYs(c)} : c \in DOMAIN cols.map}

ConsecutiveInColumn ==
    {t \in ColumnNeighbours :
        /\ t[2] < t[3]
        /\ ~\E y \in ColumnYs(t[1]) : t[2] < y /\ y < t[3]}

\* C12: the pool of Y differences of pitch_y_by_columns holds exactly the
\* consecutive differences of the sorted distinct Y values inside each column with
\* at least 2 distinct Y values, none between points of two columns and none of an
\* unassigned point, and the estimator fails instead of returning a value exactly
\* when the pool is empty (for want of column spacings when there are points).
C12_PoolOfColumnDifferences ==
    PitchYCalled =>
        /\ Len(dy_all) = Cardinality(ConsecutiveInColumn)
        /\ \A d \in Range(dy_all) \cup {t[3] - t[2] : t \in ConsecutiveInColumn} :
              Cardinality({k \in DOMAIN dy_all : dy_all[k] = d})
                  = Cardinality({t \in ConsecutiveInColumn : t[3] - t[2] = d})
        /\ ret.st = "raised" <=> ConsecutiveInColumn = {}
        /\ ret.st = "returned" <=> ConsecutiveInColumn # {}
        /\ (ret.st = "raised" /\ args.points # << >>) => ret = Raised("column spacings")

\* C12: a point outside every column and two columns whose Y values differ, in a
\* call that returned
C12_Witness ==
    /\ PitchYCalled /\ ret.st = "returned"
    /\ \E i \in DOMAIN args.points :
          \A c \in DOMAIN cols.map : i \notin Range(cols.map[c].idxs)
    /\ \E c1 \in DOMAIN cols.map, c2 \in DOMAIN cols.map :
          /\ c1 # c2
          /\ Cardinality(ColumnYs(c1)) >= 2
          /\ ColumnYs(c2) \ ColumnYs(c1) # {}

-----------------------------------------------------------------------------
(* Loading the table *)

Layers == {VIA_LAYER, M1_LAYER, M2_LAYER}

\* the lines of the well-formed rows of one layer of the input table, in file order
WellFormedLines(layer) ==
    LET Good(r) == RowParses(r) /\ r.layer = layer
        rs == SelectSeq(args.rows, Good)
    IN  [i \in DOMAIN rs |-> rs[i].id]

\* the lines of the rows of one layer in the loaded table, in its order
LoadedLines(layer) ==
    LET rs == IF args.prog = "simple" THEN LayerRows(L, layer)
              ELSE IF layer = VIA_LAYER THEN L.via
              ELSE IF layer = M1_LAYER THEN L.m1 ELSE L.m2
    IN  [i \in DOMAIN rs |-> rs[i].id]

\* C18: loading never fails because of a malformed row: a row whose coordinates
\* cannot be parsed is dropped, every well-formed row is kept in its original
\* relative order, and the run goes on to the stack matcher.
C18_MalformedRowsAreDropped ==
    (fn = "main" /\ args.exists /\ pc # "Load") =>
        /\ ret # Raised("ValueError")
        /\ \A layer \in Layers : LoadedLines(layer) = WellFormedLines(layer)

\* the rectangles of the loaded table
LoadedRects == IF args.prog = "simple" THEN L ELSE L.via \o L.m1 \o L.m2

\* C19: every rectangle of the table handed to the stack matcher is normalized,
\* x1 <= x2 and y1 <= y2, whatever the order of the corners in the input row.
C19_LoadedRectanglesNormalized ==
    (fn = "main" /\ pc = "CollectStacks") =>
        \A i \in DOMAIN LoadedRects :
            LoadedRects[i].x1 <= LoadedRects[i].x2 /\ LoadedRects[i].y1 <= LoadedRects[i].y2

InFilterCell(r) == r.cell_name = args.cell_name

\* C21: with a cell-name filter only the rows whose cell_name equals the filter
\* take part in matching, as vias or as metals: the stacks are those of the table
\* without the other rows; when no row matches the filter the matcher returns
\* zero stacks and the run does not fail.
C21_OnlyRowsOfTheFilterCell ==
    (Simple /\ pc \in {"ComputePitch", "Done"} /\ args.cell_name # "") =>
        /\ \A k \in DOMAIN stacks :
              /\ stacks[k].via.cell_name = args.cell_name
              /\ stacks[k].m1.cell_name = args.cell_name
              /\ stacks[k].m2.cell_name = args.cell_name
        /\ stacks = find_stacks(SelectSeq(L, InFilterCell), "")
        /\ (\A i \in DOMAIN L : ~InFilterCell(L[i])) =>
              /\ stacks = << >>
              /\ pc = "Done" => (ret.st = "returned" /\ ret.val.ok /\ ret.val.stack_count = 0)

\* C21: a filter that no row matches, on a table that has stacks without it
C21_Witness ==
    /\ Simple /\ pc = "Done" /\ args.cell_name # ""
    /\ \A i \in DOMAIN L : ~InFilterCell(L[i])
    /\ find_stacks(L, "") # << >>
    /\ ret.val.stack_count = 0

\* C23: Scenario A: on a table of a 4 (X) by 3 (Y) grid of via / metal-A / metal-B
\* triples with X pitch 0.16 and Y pitch 0.24 (16 and 24 units), each via inside
\* its own metals and overlapping no other, the analysis reports stack_count 12,
\* pitch_x 0.16, pitch_y 0.24 and no warning, with the simple estimator and with
\* the robust one alike.
C23_ScenarioA ==
    (fn = "main" /\ args.rows \in ScenarioATables /\ Terminal) =>
        /\ pc = "Done"
        /\ ret = Returned(Report(12, Some(16), Some(24), None))

\* C23: the robust program at the end of its run on a Scenario A table
C23_Witness ==
    /\ Robust /\ args.rows \in ScenarioATables /\ pc = "Done"
    /\ Len(stacks) = 12 /\ Len(cols.map) = 4

\* a pitch on an axis, when there is one, is positive and lies between the smallest
\* and the largest difference of two distinct centre coordinates of the stacks
MeasuredOn(p, coords) ==
    p # None =>
        /\ Cardinality(coords) >= 2
        /\ p[1] > 0
        /\ \E a \in coords, b \in coords : a < b /\ b - a <= p[1]
        /\ \E a \in coords, b \in coords : a < b /\ p[1] <= b - a

\* C24: no default pitch is ever substituted: every non-null pitch produced on an
\* axis, by the simple or by the robust estimator, is strictly positive and lies
\* between the smallest and the largest difference of two distinct stack-centre
\* coordinates on that axis; where no estimate is possible the value is null or
\* the run fails.
C24_NoDefaultPitch ==
    fn = "main" =>
        /\ MeasuredOn(pitch_x, Range(Xs(stacks)))
        /\ MeasuredOn(pitch_y, Range(Ys(stacks)))
        /\ pc = "Done" =>
              /\ ret.val.array_pitch_x = pitch_x
              /\ ret.val.array_pitch_y = pitch_y
        /\ pc = "Failed" => (ret.st = "raised" \/ ~ret.val.ok)

\* C24: two stacks or more in one row: a pitch in X, none in Y
C24_Witness ==
    /\ fn = "main" /\ pc = "Done" /\ Len(stacks) >= 2
    /\ ret.val.array_pitch_x # None /\ ret.val.array_pitch_y = None

\* the differences between neighbours among the distinct coordinates
ConsecutiveGaps(coords) ==
    {b - a : <<a, b>> \in {q \in coords \X coords :
                              q[1] < q[2] /\ ~\E c \in coords : q[1] < c /\ c < q[2]}}

SmallestGap(coords) ==
    IF Cardinality(coords) < 2 THEN None ELSE Some(SetMin(ConsecutiveGaps(coords)))

\* C26: compute_pitch: with at least two stacks the pitch on each axis is the
\* smallest strictly positive difference between consecutive sorted distinct
\* centre coordinates on that axis, null exactly when the axis has fewer than two
\* distinct coordinates; with fewer than two stacks both pitches are null.
C26_ComputePitchSmallestGap ==
    (Simple /\ pc = "Done") =>
        /\ ret.val.stack_count = Len(stacks)
        /\ Len(stacks) < 2 =>
              ret.val.array_pitch_x = None /\ ret.val.array_pitch_y = None
        /\ Len(stacks) >= 2 =>
              /\ ret.val.array_pitch_x = SmallestGap(Range(Xs(stacks)))
              /\ ret.val.array_pitch_y = SmallestGap(Range(Ys(stacks)))
              /\ ret.val.array_pitch_x = None <=> Cardinality(Range(Xs(stacks))) < 2
              /\ ret.val.array_pitch_y = None <=> Cardinality(Range(Ys(stacks))) < 2

\* C26: three coordinates or more on an axis with unequal gaps between them
C26_Witness ==
    /\ Simple /\ pc = "Done" /\ Len(stacks) >= 3
    /\ \E coords \in {Range(Xs(stacks)), Range(Ys(stacks))} :
          Cardinality(ConsecutiveGaps(coords)) >= 2

\* the via passes the overlap test against a metal-A row and a metal-B row
PassesPreFilter(via) ==
    /\ \E m \in Range(Grouped(L, args.cell_name, M1_LAYER)) : overlaps(via, m)
    /\ \E m \in Range(Grouped(L, args.cell_name, M2_LAYER)) : overlaps(via, m)

\* C30: in find_stacks the overlap pre-filter and the best-match selection agree:
\* a via yields a stack if and only if overlaps(via, m) is true for at least one
\* metal-A row and for at least one metal-B row; no via that passes the overlap
\* test on both layers is dropped by best_match, also with rectangles of zero
\* width or height and rows with x1 > x2.
C30_PreFilterAgreesWithBestMatch ==
    (Simple /\ pc \in {"ComputePitch", "Done"}) =>
        \A via \in Range(Grouped(L, args.cell_name, VIA_LAYER)) :
            (\E i \in DOMAIN stacks : stacks[i].via = via) <=> PassesPreFilter(via)

-----------------------------------------------------------------------------
(* One program run again: on the same table, or on the table with two rows
   exchanged *)

MaxRuns == 2

\* via sites of three columns; the columns at x = 0 and x = 16 have different
\* spacings in Y
OrderSites == {Box(0, 0, 8, 8), Box(0, 16, 8, 24), Box(16, 0, 24, 8), Box(16, 48, 24, 56),
               Box(32, 0, 40, 8)}

OrderViaLists ==
    {vs \in MetalLists(OrderSites, 5) : \A i, j \in DOMAIN vs : i < j => vs[i].x1 <= vs[j].x1}

OrderPlate == Box(-4, -4, 44, 60)

RunInputs ==
    {[prog |-> p, exists |-> TRUE, rows |-> Table(vs, <<OrderPlate>>, <<OrderPlate>>),
      cell_name |-> "top", eps |-> 0] : p \in {"simple", "robust"}, vs \in OrderViaLists}
    \cup {[prog |-> p, exists |-> FALSE, rows |-> << >>, cell_name |-> "top", eps |-> 0] :
        p \in {"simple", "robust"}}

InitRuns ==
    /\ fn = "main"
    /\ args \in RunInputs
    /\ ret = Pending
    /\ pc = "Load"
    /\ L = << >>
    /\ stacks = << >>
    /\ pitch_x = None
    /\ pitch_y = None
    /\ cols = << >>
    /\ diffs = << >>
    /\ dy_all = << >>
    /\ history = << >>
    /\ exit_code = None
    /\ ApiIdle

\* rows i and j exchanged; id stays the line of the row
Exchanged(rows, i, j) ==
    [k \in DOMAIN rows |->
        [rows[IF k = i THEN j ELSE IF k = j THEN i ELSE k] EXCEPT !.id = k]]

\* The program is started once more on the same input. The locals of the new call
\* are unbound until it assigns them: the variables keep what the ended run left,
\* so that a step reading one before assigning it depends on the earlier run.
run_again ==
    /\ fn = "main" /\ pc \in {"Done", "Failed"}
    /\ Len(history) < MaxRuns - 1
    /\ history' = Append(history, [args |-> args, ret |-> ret])
    /\ pc' = "Load"
    /\ ret' = Pending
    /\ exit_code' = None
    /\ UNCHANGED <<fn, args, L, stacks, pitch_x, pitch_y, cols, diffs, dy_all, apiVars>>

\* The program is started once more on the table with two of its rows exchanged.
run_permuted ==
    /\ fn = "main" /\ pc \in {"Done", "Failed"}
    /\ Len(history) < MaxRuns - 1
    /\ \E i \in DOMAIN args.rows, j \in DOMAIN args.rows :
           /\ i < j
           /\ args' = [args EXCEPT !.rows = Exchanged(args.rows, i, j)]
    /\ history' = Append(history, [args |-> args, ret |-> ret])
    /\ pc' = "Load"
    /\ ret' = Pending
    /\ exit_code' = None
    /\ UNCHANGED <<fn, L, stacks, pitch_x, pitch_y, cols, diffs, dy_all, apiVars>>

NextRuns == Next \/ run_again \/ run_permuted

SpecRuns == InitRuns /\ [][NextRuns]_vars

\* C16: two runs on the same input table, in the same order and configuration,
\* end alike: the same report (stack_count, pitch_x, pitch_y, warning) or the same
\* failure, whatever the earlier run left behind.
C16_SameInputSameResult ==
    (fn = "main" /\ pc \in {"Done", "Failed"}) =>
        \A k \in DOMAIN history : history[k].args = args => history[k].ret = ret

\* C16: a second run on the same table that ended with both pitches
C16_Witness ==
    /\ fn = "main" /\ pc = "Done"
    /\ history # << >> /\ history[1].args = args
    /\ ret.val.stack_count >= 3
    /\ ret.val.array_pitch_x # None /\ ret.val.array_pitch_y # None

\* the rows of one table are those of the other in some order
SameRows(r1, r2) ==
    /\ Len(r1) = Len(r2)
    /\ \A k \in DOMAIN r1 :
          Cardinality({i \in DOMAIN r1 : [r1[i] EXCEPT !.id = 0] = [r1[k] EXCEPT !.id = 0]})
              = Cardinality({i \in DOMAIN r2 : [r2[i] EXCEPT !.id = 0] = [r1[k] EXCEPT !.id = 0]})

\* the same stack_count, pitch_x and pitch_y, or the same failure
SameOutcome(r1, r2) ==
    /\ r1.st = r2.st
    /\ r1.st = "raised" => r1.val = r2.val
    /\ r1.st = "returned" =>
          /\ r1.val.ok = r2.val.ok
          /\ r1.val.ok =>
                /\ r1.val.stack_count = r2.val.stack_count
                /\ r1.val.array_pitch_x = r2.val.array_pitch_x
                /\ r1.val.array_pitch_y = r2.val.array_pitch_y

\* C17: on every permutation of the rows of a table the analysis ends as on the
\* original order: the same stack_count, pitch_x and pitch_y, or the same failure.
C17_RowOrderIndependence ==
    (fn = "main" /\ pc \in {"Done", "Failed"}) =>
        \A k \in DOMAIN history :
            (history[k].args.prog = args.prog /\ SameRows(history[k].args.rows, args.rows))
                => SameOutcome(history[k].ret, ret)

-----------------------------------------------------------------------------
(* klayout_api.py: _parse_layer_spec, _normalize_layer_list and
   klayout_merge_shapes_through_hier_by_input_cell_name_and_list_layers *)

\* Python values that a caller can pass as a layer specification. A str is held
\* as its non-empty pieces between the separators / : and . , each piece
\* Some(n), a numeral, or None, no numeral.
PyNone == [t |-> "none", n |-> 0, parts |-> << >>, items |-> << >>, d |-> << >>]
PyInt(i) == [PyNone EXCEPT !.t = "int", !.n = i]
PyStr(pieces) == [PyNone EXCEPT !.t = "str", !.parts = pieces]
PyList(elems) == [PyNone EXCEPT !.t = "list", !.items = elems]
\* a dict is held as its <<key, value>> pairs, in the order of insertion
PyDict(pairs) == [PyNone EXCEPT !.t = "dict", !.d = pairs]

Keys(spec) == {spec.d[k][1] : k \in DOMAIN spec.d}

\* spec[key]
Item(spec, key) == spec.d[CHOOSE k \in DOMAIN spec.d : spec.d[k][1] = key][2]

\* int(x)
py_int(x) ==
    IF x.t = "int" THEN Returned(x.n)
    ELSE IF x.t = "str"
         THEN IF Len(x.parts) = 1 /\ x.parts[1] # None THEN Returned(x.parts[1][1])
              ELSE Raised("ValueError")
         ELSE Raised("TypeError")

\* return a, b where evaluating a or b may raise: a is evaluated first
Both(a, b) ==
    IF a.st = "raised" THEN a
    ELSE IF b.st = "raised" THEN b
    ELSE Returned(<<a.val, b.val>>)

\* the first key of keys that the dict has, if any
FirstKey(spec, keys) ==
    LET has == {k \in DOMAIN keys : keys[k] \in Keys(spec)}
    IN  IF has = {} THEN None ELSE Some(keys[SetMin(has)])

\* the dict branch of _parse_layer_spec
ParseDict(spec) ==
    IF "layer_datatype" \in Keys(spec) /\ "layer_purpose" \in Keys(spec)
    THEN Both(py_int(Item(spec, "layer_datatype")), py_int(Item(spec, "layer_purpose")))
    ELSE LET nk == FirstKey(spec, <<"layer_number", "layer", "number", "layer_num">>)
             layer_number ==
                 IF nk # None THEN Some(py_int(Item(spec, nk[1])))
                 ELSE IF "layer_datatype" \in Keys(spec)
                      THEN Some(py_int(Item(spec, "layer_datatype")))
                 ELSE None
             dk == FirstKey(spec, <<"layer_datatype", "datatype">>)
             layer_datatype ==
                 IF dk # None THEN Some(py_int(Item(spec, dk[1])))
                 ELSE IF "layer_purpose" \in Keys(spec)
                      THEN Some(py_int(Item(spec, "layer_purpose")))
                 ELSE None
         IN  IF layer_number # None /\ layer_number[1].st = "raised" THEN layer_number[1]
             ELSE IF layer_datatype # None /\ layer_datatype[1].st = "raised"
                  THEN layer_datatype[1]
             ELSE IF layer_number = None \/ layer_datatype = None THEN Raised("ValueError")
             ELSE Returned(<<layer_number[1].val, layer_datatype[1].val>>)

\* _parse_layer_spec: (layer_number, layer_datatype), or the exception raised
parse_layer_spec(spec) ==
    IF spec.t = "str"
    THEN IF Len(spec.parts) # 2 THEN Raised("ValueError")
         ELSE Both(py_int(PyStr(<<spec.parts[1]>>)), py_int(PyStr(<<spec.parts[2]>>)))
    ELSE IF spec.t = "dict" THEN ParseDict(spec)
    ELSE IF spec.t = "list"
         THEN IF Len(spec.items) # 2 THEN Raised("ValueError")
              ELSE Both(py_int(spec.items[1]), py_int(spec.items[2]))
    ELSE Raised("ValueError")

\* the loop of _normalize_layer_list: the first item that raises ends it
RECURSIVE ParseAll(_, _)
ParseAll(elems, k) ==
    IF k = 0 THEN Returned(<< >>)
    ELSE LET before == ParseAll(elems, k - 1)
         IN  IF before.st = "raised" THEN before
             ELSE LET one == parse_layer_spec(elems[k])
                  IN  IF one.st = "raised" THEN one
                      ELSE Returned(Append(before.val, one.val))

\* _normalize_layer_list: a single specification is wrapped into a list; a value
\* that is neither a list nor a single specification cannot be iterated
normalize_layer_list(layer_list) ==
    IF layer_list.t = "none" THEN Returned(<< >>)
    ELSE IF \/ layer_list.t \in {"str", "dict"}
            \/ /\ layer_list.t = "list" /\ layer_list.items # << >>
               /\ layer_list.items[1].t \notin {"list", "dict", "str"}
         THEN ParseAll(<<layer_list>>, 1)
    ELSE IF layer_list.t = "list" THEN ParseAll(layer_list.items, Len(layer_list.items))
    ELSE Raised("TypeError")

\* if output_list_of_layers: a None or an empty list or str counts as omitted
Truthy(x) == ~(x.t = "none" \/ (x.t = "list" /\ x.items = << >>))

Merge == fn = "merge"

Refuse(msg) == Returned([ok |-> FALSE, error |-> msg])

\* lines 1108-1139: the layout, the two layer lists, the cell
merge_check ==
    /\ Merge /\ pc = "Check"
    /\ \E inl \in {normalize_layer_list(args.input_list_layers)},
          outl \in {normalize_layer_list(args.output_list_of_layers)} :
         ret' = IF args.source = "missing" THEN Refuse("Input file not found")
                ELSE IF args.source = "unreadable" THEN Refuse("Failed to read layout file")
                ELSE IF inl.st = "raised"
                     THEN IF inl.val = "ValueError" THEN Refuse("ValueError") ELSE inl
                ELSE IF inl.val = << >> THEN Refuse("input_list_layers is empty")
                ELSE IF Truthy(args.output_list_of_layers) /\ outl.st = "raised"
                     THEN IF outl.val = "ValueError" THEN Refuse("ValueError") ELSE outl
                ELSE IF Truthy(args.output_list_of_layers) /\ Len(outl.val) # Len(inl.val)
                     THEN Refuse("length must match")
                ELSE IF ~args.cell_exists THEN Refuse("Cell not found")
                ELSE ret
    /\ pc' = IF ret' = ret THEN "MergeLayers" ELSE "Failed"
    /\ index' = 0
    /\ UNCHANGED <<fn, args, mainVars, effects, accumulator, logs, stack, records, summary>>

\* the layer pairs of the loop: zip(input_layers, output_layers)
MergePairs ==
    LET inl == normalize_layer_list(args.input_list_layers).val
        outl == IF Truthy(args.output_list_of_layers)
                THEN normalize_layer_list(args.output_list_of_layers).val
                ELSE [k \in DOMAIN inl |-> <<inl[k][1] + 10000, inl[k][2]>>]
    IN  [k \in DOMAIN inl |-> [src |-> inl[k], dst |-> outl[k]]]

\* one turn of the loop over the layer pairs: the destination layer is cleared
\* the first time it is met, then the merged polygons are inserted
merge_layer ==
    /\ Merge /\ pc = "MergeLayers" /\ index < Len(MergePairs)
    /\ LET pair == MergePairs[index + 1]
           cleared == \E e \in Range(effects) : e = <<"clear", pair.dst>>
       IN  effects' = effects
                        \o (IF cleared THEN << >> ELSE << <<"clear", pair.dst>> >>)
                        \o (IF pair.src \in args.layout THEN << <<"insert", pair.dst>> >>
                            ELSE << >>)
    /\ index' = index + 1
    /\ UNCHANGED <<fn, args, ret, pc, mainVars, accumulator, logs, stack, records, summary>>

\* layout.write, the CSV file when a path was given, and the report
merge_write ==
    /\ Merge /\ pc = "MergeLayers" /\ index = Len(MergePairs)
    /\ effects' = effects \o << <<"write_gds", << >> >> >>
                          \o (IF args.csv THEN << <<"write_csv", << >> >> >> ELSE << >>)
    /\ ret' = Returned([ok |-> TRUE,
                        total_merged_shapes |->
                            Cardinality({k \in DOMAIN effects : effects[k][1] = "insert"})])
    /\ pc' = "Done"
    /\ UNCHANGED <<fn, args, mainVars, accumulator, logs, index, stack, records, summary>>

\* layer specifications: well formed, refused with ValueError, and of a shape on
\* which int() raises TypeError
GoodSpecs ==
    {PyStr(<<Some(1), Some(0)>>), PyStr(<<Some(2), Some(0)>>),
     PyList(<<PyInt(3), PyInt(0)>>), PyList(<<PyStr(<<Some(1)>>), PyInt(0)>>),
     PyDict(<< <<"layer", PyInt(1)>>, <<"datatype", PyInt(0)>> >>),
     PyDict(<< <<"layer_datatype", PyInt(2)>>, <<"layer_purpose", PyInt(0)>> >>)}

RefusedSpecs ==
    {PyStr(<<None, Some(0)>>), PyStr(<<Some(1)>>), PyStr(<<Some(1), Some(0), Some(0)>>),
     PyList(<<PyList(<<PyInt(1), PyInt(0)>>), PyInt(0), PyInt(0)>>),
     PyList(<<PyStr(<<None>>), PyInt(0)>>),
     PyDict(<< <<"layer", PyInt(1)>> >>), PyNone}

CrashingSpecs ==
    {PyList(<<PyList(<<PyInt(1)>>), PyInt(0)>>),
     PyDict(<< <<"layer", PyNone>>, <<"datatype", PyInt(0)>> >>),
     PyDict(<< <<"layer", PyInt(1)>>, <<"datatype", PyList(<< >>)>> >>)}

LayerSpecs == GoodSpecs \cup RefusedSpecs \cup CrashingSpecs

\* what a caller passes as a list of layers: nothing, a single specification, a
\* number, a list of one or two specifications
LayerLists ==
    {PyNone, PyList(<< >>), PyInt(5), PyList(<<PyInt(1), PyInt(0)>>), PyList(<<PyNone, PyInt(0)>>)}
    \cup {s \in LayerSpecs : s.t \in {"str", "dict"}}
    \cup {PyList(<<s>>) : s \in LayerSpecs \ {PyNone}}
    \cup {PyList(<<PyStr(<<Some(1), Some(0)>>), s>>) : s \in LayerSpecs}

OutputLists ==
    {PyNone, PyList(<< >>), PyList(<<PyStr(<<Some(7), Some(0)>>)>>),
     PyList(<<PyStr(<<Some(7), Some(0)>>), PyStr(<<Some(7), Some(0)>>)>>),
     PyList(<<PyStr(<<Some(7), Some(0)>>), PyStr(<<Some(8), Some(0)>>)>>),
     PyList(<<PyStr(<<None, Some(0)>>)>>),
     PyList(<<PyList(<<PyList(<<PyInt(1)>>), PyInt(0)>>)>>)}

\* the layers of the layout that hold a shape under the cell
Layouts == {{<<1, 0>>}, {<<1, 0>>, <<2, 0>>, <<3, 0>>}}

MergeInputs ==
    {[input_list_layers |-> i, output_list_of_layers |-> o, cell_exists |-> c,
      source |-> src, csv |-> f, layout |-> l] :
        i \in LayerLists, o \in OutputLists, c \in BOOLEAN,
        src \in {"layout", "file", "missing", "unreadable"}, f \in BOOLEAN, l \in Layouts}

InitMerge ==
    /\ fn = "merge"
    /\ args \in MergeInputs
    /\ ret = Pending
    /\ L = << >> /\ stacks = << >> /\ pitch_x = None /\ pitch_y = None /\ cols = << >>
    /\ diffs = << >> /\ dy_all = << >> /\ history = << >> /\ exit_code = None
    /\ ApiIdle
    /\ pc = "Check"

NextMerge == merge_check \/ merge_layer \/ merge_write

SpecMerge == InitMerge /\ [][NextMerge]_vars

\* a layer list that the caller supplied and that cannot be parsed
Unparsable(layer_list) == normalize_layer_list(layer_list).st = "raised"

\* the requests that the claim says are refused
MustRefuse ==
    \/ Unparsable(args.input_list_layers)
    \/ Truthy(args.output_list_of_layers) /\ Unparsable(args.output_list_of_layers)
    \/ normalize_layer_list(args.input_list_layers) = Returned(<< >>)
    \/ /\ ~Unparsable(args.input_list_layers)
       /\ Truthy(args.output_list_of_layers) /\ ~Unparsable(args.output_list_of_layers)
       /\ Len(normalize_layer_list(args.output_list_of_layers).val)
            # Len(normalize_layer_list(args.input_list_layers).val)
    \/ ~args.cell_exists

\* C25: an unparsable layer specification is rejected before any geometry work:
\* the merge returns ok = false when a specification of the input or of the output
\* list cannot be parsed, when the input list is empty, when the two lists differ
\* in length, or when the cell does not exist, and then no shape was cleared or
\* inserted and no GDS or CSV file was written.
C25_BadLayerSpecRefused ==
    (Merge /\ MustRefuse) =>
        /\ effects = << >>
        /\ pc # "Check" =>
              /\ pc = "Failed"
              /\ ret.st = "returned"
              /\ ret.val.ok = FALSE

-----------------------------------------------------------------------------
(* run_pipeline.py: parse_pipeline, resolve_argument, evaluate_pipeline and the
   arithmetic tools add, mul, div.  A number is held as a fraction <<n, d>> in
   lowest terms with d > 0 *)

RECURSIVE Gcd(_, _)
Gcd(m, n) == IF n = 0 THEN m ELSE Gcd(n, m % n)

Frac(n, d) ==
    LET g == Gcd(Abs(n), Abs(d))
        sgn == IF d < 0 THEN -1 ELSE 1
    IN  <<(sgn * n) \div g, (sgn * d) \div g>>

\* the second loop of parse_pipeline over the first k lexemes: nesting depth, the
\* lists and the words met outside every list, the steps, a word where a step
\* should be, a closing parenthesis too many
RECURSIVE ParseFold(_, _)
ParseFold(lexemes, k) ==
    IF k = 0
    THEN [depth |-> 0, top_lists |-> 0, top_words |-> 0, steps |-> << >>,
          bad_step |-> FALSE, unbalanced |-> FALSE]
    ELSE LET q == ParseFold(lexemes, k - 1)
             lx == lexemes[k]
             n == Len(q.steps)
         IN  IF q.unbalanced THEN q
             ELSE IF lx = "("
             THEN IF q.depth = 0 THEN [q EXCEPT !.depth = 1, !.top_lists = @ + 1]
                  ELSE IF q.depth = 1
                       THEN [q EXCEPT !.depth = 2, !.steps = Append(@, << >>)]
                  ELSE IF q.depth = 2
                       THEN [q EXCEPT !.depth = 3, !.steps[n] = Append(@, "[...]")]
                  ELSE [q EXCEPT !.depth = @ + 1]
             ELSE IF lx = ")"
             THEN IF q.depth = 0 THEN [q EXCEPT !.unbalanced = TRUE]
                  ELSE [q EXCEPT !.depth = @ - 1]
             ELSE IF q.depth = 0 THEN [q EXCEPT !.top_words = @ + 1]
                  ELSE IF q.depth = 1 THEN [q EXCEPT !.bad_step = TRUE]
                  ELSE IF q.depth = 2 THEN [q EXCEPT !.steps[n] = Append(@, lx)]
                  ELSE q

\* parse_pipeline over the lexemes of the text: parentheses and words
parse_pipeline(pipeline_text) ==
    LET q == ParseFold(pipeline_text, Len(pipeline_text))
    IN  IF pipeline_text = << >> THEN Raised("ValueError")
        ELSE IF q.unbalanced \/ q.depth > 0 THEN Raised("ValueError")
        ELSE IF q.top_lists # 1 \/ q.top_words # 0 THEN Raised("ValueError")
        ELSE IF q.bad_step \/ \E i \in DOMAIN q.steps : q.steps[i] = << >>
             THEN Raised("ValueError")
        ELSE Returned(q.steps)

\* float(token) for the literals that occur
Literals == <<"2", "0", "0.5">>
LiteralValues == <<Frac(2, 1), Frac(0, 1), Frac(1, 2)>>

float_of_token(token) ==
    IF \E i \in DOMAIN Literals : Literals[i] = token
    THEN Returned(LiteralValues[CHOOSE i \in DOMAIN Literals : Literals[i] = token])
    ELSE Raised("ValueError")

\* resolve_argument taking 0 for '_' when there is no result yet
resolve_argument_zero_start(token, variables, acc) ==
    IF token = "_" THEN (IF acc = None THEN Returned(Frac(0, 1)) ELSE Returned(acc[1]))
    ELSE IF token \in DOMAIN variables THEN Returned(variables[token])
    ELSE float_of_token(token)

resolve_argument(token, variables, acc) ==
    IF token = "_" THEN (IF acc = None THEN Raised("ValueError") ELSE Returned(acc[1]))
    ELSE IF token \in DOMAIN variables THEN Returned(variables[token])
    ELSE float_of_token(token)

\* function(*arguments) for the tools add, mul and div
CallTool(name, arguments) ==
    IF Len(arguments) # 2 THEN Raised("TypeError")
    ELSE LET x == arguments[1]
             y == arguments[2]
         IN  IF name = "add" THEN Returned(Frac(x[1] * y[2] + y[1] * x[2], x[2] * y[2]))
             ELSE IF name = "mul" THEN Returned(Frac(x[1] * y[1], x[2] * y[2]))
             ELSE IF y[1] = 0 THEN Raised("ZeroDivisionError")
             ELSE Returned(Frac(x[1] * y[2], x[2] * y[1]))

Pipeline == fn = "pipeline"

\* the steps handed to evaluate_pipeline
Steps == parse_pipeline(args.pipeline_text).val

\* parse_pipeline(pipeline_text), then the head of evaluate_pipeline
pipeline_parse ==
    /\ Pipeline /\ pc = "Parse"
    /\ LET parsed == parse_pipeline(args.pipeline_text)
       IN  IF parsed.st = "raised" THEN ret' = parsed /\ pc' = "Failed"
           ELSE IF parsed.val = << >> THEN ret' = Raised("ValueError") /\ pc' = "Failed"
           ELSE ret' = ret /\ pc' = "Step"
    /\ accumulator' = None
    /\ logs' = << >>
    /\ index' = 1
    /\ UNCHANGED <<fn, args, mainVars, effects, stack, records, summary>>

\* one turn of the loop of evaluate_pipeline
pipeline_step ==
    /\ Pipeline /\ pc = "Step" /\ index <= Len(Steps)
    /\ LET step == Steps[index]
           func_name == step[1]
           resolved == [j \in 1..(Len(step) - 1) |->
                           resolve_argument(step[j + 1], args.variables, accumulator)]
           unresolved == {j \in DOMAIN resolved : resolved[j].st = "raised"}
           arguments == [j \in DOMAIN resolved |-> resolved[j].val]
           result == CallTool(func_name, arguments)
       IN  IF step = << >> \/ func_name \notin args.tool_catalog \/ unresolved # {}
           THEN /\ ret' = Raised("ValueError")
                /\ pc' = "Failed"
                /\ UNCHANGED <<effects, accumulator, logs, index>>
           ELSE /\ effects' = Append(effects, <<"call", func_name, arguments>>)
                /\ IF result.st = "raised"
                   THEN /\ ret' = Raised("RuntimeError")
                        /\ pc' = "Failed"
                        /\ UNCHANGED <<accumulator, logs, index>>
                   ELSE /\ accumulator' = Some(result.val)
                        /\ logs' = Append(logs, [index |-> index, func_name |-> func_name,
                                                 arguments |-> arguments,
                                                 result |-> result.val])
                        /\ index' = index + 1
                        /\ UNCHANGED <<ret, pc>>
    /\ UNCHANGED <<fn, args, mainVars, stack, records, summary>>

\* return accumulator, logs
pipeline_return ==
    /\ Pipeline /\ pc = "Step" /\ index > Len(Steps)
    /\ ret' = Returned(<<accumulator[1], logs>>)
    /\ pc' = "Done"
    /\ UNCHANGED <<fn, args, mainVars, apiVars>>

MaxSteps == 3

\* steps of a pipeline text: well formed, of an unregistered function, with a
\* word that is no number, with one argument only, dividing by zero
StepPool ==
    {<<"add", "a", "b">>, <<"mul", "_", "c">>, <<"div", "_", "b">>, <<"add", "_", "_">>,
     <<"mul", "2", "_">>, <<"div", "a", "0">>, <<"div", "0.5", "d">>, <<"pow", "a", "b">>,
     <<"pow", "_", "x">>, <<"add", "x", "a">>, <<"add", "a">>}

RECURSIVE Lex(_, _)
Lex(p, k) == IF k = 0 THEN << >> ELSE Lex(p, k - 1) \o <<"(">> \o p[k] \o <<")">>

\* the lexemes of ((f x y) (g _ z) ...)
TextOf(p) == <<"(">> \o Lex(p, Len(p)) \o <<")">>

PipelineTexts ==
    {TextOf(p) : p \in UNION {[1..n -> StepPool] : n \in 0..MaxSteps}}
    \cup {<< >>, <<"(", "(", "add", "a", "b", ")">>, <<"(", "add", "a", "b", ")", ")">>,
          <<"(", "add", "a", "b", ")">>, <<"(", "(", ")", ")">>,
          <<"(", "(", "add", "a", "b", ")", ")", "(", ")">>,
          <<"add", "(", "(", "add", "a", "b", ")", ")">>,
          <<"(", "(", "add", "(", "a", ")", "b", ")", ")">>}

PipelineInputs ==
    {[pipeline_text |-> t, tool_catalog |-> c,
      variables |-> [a |-> Frac(3, 1), b |-> Frac(2, 1), c |-> Frac(5, 1), d |-> Frac(7, 1)]] :
        t \in PipelineTexts, c \in {{"add", "mul", "div"}, {"add", "mul"}}}

InitPipeline ==
    /\ fn = "pipeline"
    /\ args \in PipelineInputs
    /\ ret = Pending
    /\ L = << >> /\ stacks = << >> /\ pitch_x = None /\ pitch_y = None /\ cols = << >>
    /\ diffs = << >> /\ dy_all = << >> /\ history = << >> /\ exit_code = None
    /\ ApiIdle
    /\ pc = "Parse"

NextPipeline == pipeline_parse \/ pipeline_step \/ pipeline_return

SpecPipeline == InitPipeline /\ [][NextPipeline]_vars

\* the value the claim gives to a token of step k
ValueOfToken(token, k) ==
    IF token = "_" THEN logs[k - 1].result
    ELSE IF token \in DOMAIN args.variables THEN args.variables[token]
    ELSE float_of_token(token).val

\* C27: evaluate_pipeline runs the steps in list order; in step k the token '_'
\* resolves to the result of step k-1, a variable name to its supplied value and
\* any other token to its float literal; '_' in the first step, an unregistered
\* function or an empty step list fails with ValueError before that step's tool
\* is called; on success the value returned is the result of the last step and
\* there is exactly one log line per step, in step order.
C27_PipelineInOrder ==
    (Pipeline /\ pc # "Parse" /\ parse_pipeline(args.pipeline_text).st = "returned") =>
        /\ \A k \in DOMAIN effects :
              /\ k <= Len(Steps)
              /\ effects[k][2] = Steps[k][1]
              /\ effects[k][2] \in args.tool_catalog
              /\ Len(effects[k][3]) = Len(Steps[k]) - 1
              /\ k > 1 => k - 1 \in DOMAIN logs
              /\ \A j \in DOMAIN effects[k][3] :
                    /\ Steps[k][j + 1] = "_" => k > 1
                    /\ effects[k][3][j] = ValueOfToken(Steps[k][j + 1], k)
        /\ \A k \in DOMAIN logs :
              /\ k \in DOMAIN effects
              /\ logs[k].index = k
              /\ logs[k].func_name = Steps[k][1]
              /\ logs[k].arguments = effects[k][3]
              /\ logs[k].result = CallTool(Steps[k][1], effects[k][3]).val
        /\ Len(effects) \in {Len(logs), Len(logs) + 1}
        /\ Steps = << >> => (ret = Raised("ValueError") /\ effects = << >>)
        /\ (Terminal /\ Steps # << >> /\ \E j \in 2..Len(Steps[1]) : Steps[1][j] = "_") =>
              (ret = Raised("ValueError") /\ effects = << >>)
        /\ (Terminal /\ \E k \in DOMAIN Steps :
                            k = Len(logs) + 1 /\ Steps[k][1] \notin args.tool_catalog) =>
              (ret = Raised("ValueError") /\ Len(effects) = Len(logs))
        /\ pc = "Done" =>
              /\ Len(logs) = Len(Steps)
              /\ ret = Returned(<<logs[Len(Steps)].result, logs>>)
        /\ Terminal => (pc = "Done" <=> Len(logs) = Len(Steps) /\ Steps # << >>)

\* C27: three steps ran, the second and the third taking the result of the one
\* before
C27_Witness ==
    /\ Pipeline /\ pc = "Done" /\ Len(logs) = 3
    /\ \A k \in 2..3 : \E j \in 2..Len(Steps[k]) : Steps[k][j] = "_"
    /\ logs[1].result # logs[2].result /\ logs[2].result # logs[3].result

-----------------------------------------------------------------------------
(* klayout_api.py: klayout_get_instance_array_info_of_this_cell.  A layout gives
   for each cell index the instances placed in the cell, in the order of
   each_inst(); transformations and bounding boxes play no part in the walk and
   are left out, the position of the instance in its parent standing for them *)

Single(child_idx) == [child |-> child_idx, is_array |-> FALSE, nx |-> 1, ny |-> 1]
Array(child_idx, nx, ny) == [child |-> child_idx, is_array |-> TRUE, nx |-> nx, ny |-> ny]

CellIndices == 0..3

\* layout.cell(child_idx) is None for an index outside the layout
ValidCell(child_idx) == child_idx \in CellIndices

\* a chain, a diamond, a cell instantiating the root above it, a cell
\* instantiating itself, arrays, no instance at all, an instance of a cell that
\* does not exist, a cell instantiating its parent below the root
Hierarchies ==
    {<< <<Single(1)>>, <<Single(2)>>, <<Single(3)>>, << >> >>,
     << <<Single(1), Single(2)>>, <<Single(3)>>, <<Single(3)>>, << >> >>,
     << <<Single(1)>>, <<Single(2)>>, <<Single(0), Single(3)>>, << >> >>,
     << <<Single(0), Single(1)>>, <<Single(1)>>, << >>, << >> >>,
     << <<Array(1, 2, 2)>>, <<Single(2), Array(2, 1, 2)>>, << >>, << >> >>,
     << << >>, << >>, << >>, << >> >>,
     << <<Single(4), Single(1)>>, << >>, << >>, << >> >>,
     << <<Single(1)>>, <<Single(2)>>, <<Single(1), Single(3)>>, << >> >>}

\* cell.each_inst() of the cell with this index
each_inst(cell_idx) == args.layout[cell_idx + 1]

\* if child_idx in path_idx, looking at the root of the path only
OnPathRootOnly(child_idx, path_idx) == child_idx = path_idx[1]

\* if child_idx in path_idx
OnPath(child_idx, path_idx) == child_idx \in Range(path_idx)

\* the test before records.append, with the last depth left out
InWindowBelowEnd(depth) ==
    args.start_hier <= depth /\ (args.end_hier < 0 \/ depth < args.end_hier)

\* (start_hier <= next_depth) and (end_hier < 0 or next_depth <= end_hier)
InWindow(depth) ==
    args.start_hier <= depth /\ (args.end_hier < 0 \/ depth <= args.end_hier)

\* summary["by_depth"][str(depth)] = summary["by_depth"].get(str(depth), 0) + 1,
\* n times
Counted(by_depth, depth, n) ==
    [d \in DOMAIN by_depth \cup {depth} |->
        (IF d \in DOMAIN by_depth THEN by_depth[d] ELSE 0) + (IF d = depth THEN n ELSE 0)]

\* the records of one instance: one for each element of an expanded array, one
\* otherwise, or none outside the depth window
Emitted(e, k, cia) ==
    LET n == IF cia.is_array /\ args.expand_array THEN cia.nx * cia.ny ELSE 1
    IN  IF InWindow(e.depth + 1)
        THEN [j \in 1..n |->
                 [depth |-> e.depth + 1, path |-> e.path_idx, parent_cell |-> e.cell,
                  child_cell |-> cia.child, is_array |-> cia.is_array, inst |-> k,
                  elt |-> <<(j - 1) \div cia.ny, (j - 1) % cia.ny>>]]
        ELSE << >>

\* the for loop over the instances of the popped cell, after k instances: the
\* records, the counters by depth, the cycle flag, the entries pushed
RECURSIVE VisitFold(_, _, _)
VisitFold(e, k, before) ==
    IF k = 0 THEN before
    ELSE LET q == VisitFold(e, k - 1, before)
             cia == each_inst(e.cell)[k]
             back == OnPath(cia.child, e.path_idx)
             recs == Emitted(e, k, cia)
             descend == ~back /\ (args.end_hier < 0 \/ e.depth + 1 < args.end_hier)
         IN  IF ~ValidCell(cia.child) THEN q
             ELSE [records |-> q.records \o recs,
                   by_depth |-> IF recs = << >> THEN q.by_depth
                                ELSE Counted(q.by_depth, e.depth + 1, Len(recs)),
                   cycle_detected |-> q.cycle_detected \/ back,
                   pushes |-> IF descend
                              THEN Append(q.pushes,
                                          [cell |-> cia.child, depth |-> e.depth + 1,
                                           path_idx |-> Append(e.path_idx, cia.child)])
                              ELSE q.pushes]

Enum == fn = "enumerate"

\* layout.cell(cell_name), summary, records, the stack holding the root
enum_start ==
    /\ Enum /\ pc = "Start"
    /\ IF ~args.cell_exists
       THEN /\ ret' = Refuse("Cell not found")
            /\ pc' = "Failed"
            /\ UNCHANGED <<stack, records, summary>>
       ELSE /\ summary' = [root_cell |-> 0, start_hier |-> args.start_hier,
                           end_hier |-> args.end_hier, expand_array |-> args.expand_array,
                           count |-> 0, by_depth |-> << >>, cycle_detected |-> FALSE]
            /\ records' = << >>
            /\ stack' = <<[cell |-> 0, depth |-> 0, path_idx |-> <<0>>]>>
            /\ pc' = "Walk"
            /\ ret' = ret
    /\ UNCHANGED <<fn, args, mainVars, effects, accumulator, logs, index>>

\* one turn of while stack: pop a cell and go through its instances
enum_visit ==
    /\ Enum /\ pc = "Walk" /\ stack # << >>
    /\ LET e == stack[Len(stack)]
           q == VisitFold(e, Len(each_inst(e.cell)),
                          [records |-> records, by_depth |-> summary.by_depth,
                           cycle_detected |-> summary.cycle_detected, pushes |-> << >>])
       IN  /\ stack' = SubSeq(stack, 1, Len(stack) - 1) \o q.pushes
           /\ records' = q.records
           /\ summary' = [summary EXCEPT !.by_depth = q.by_depth,
                                         !.cycle_detected = q.cycle_detected]
           /\ effects' = Append(effects, <<"each_inst", e>>)
    /\ UNCHANGED <<fn, args, ret, pc, mainVars, accumulator, logs, index>>

\* summary["count"], the CSV file when a path was given, the result
enum_finish ==
    /\ Enum /\ pc = "Walk" /\ stack = << >>
    /\ summary' = [summary EXCEPT !.count = Len(records)]
    /\ effects' = IF args.csv THEN Append(effects, <<"write_csv", Len(records)>>) ELSE effects
    /\ ret' = Returned([ok |-> TRUE, summary |-> summary', records |-> records])
    /\ pc' = "Done"
    /\ UNCHANGED <<fn, args, mainVars, accumulator, logs, index, stack, records>>

EnumInputs ==
    {[layout |-> h, cell_exists |-> c, start_hier |-> s, end_hier |-> e,
      expand_array |-> x, csv |-> f] :
        h \in Hierarchies, c \in BOOLEAN, s \in 0..2, e \in -1..2, x \in BOOLEAN,
        f \in BOOLEAN}

InitEnum ==
    /\ fn = "enumerate"
    /\ args \in EnumInputs
    /\ ret = Pending
    /\ L = << >> /\ stacks = << >> /\ pitch_x = None /\ pitch_y = None /\ cols = << >>
    /\ diffs = << >> /\ dy_all = << >> /\ history = << >> /\ exit_code = None
    /\ ApiIdle
    /\ pc = "Start"

NextEnum == enum_start \/ enum_visit \/ enum_finish

SpecEnum == InitEnum /\ [][NextEnum]_vars

\* the loop is not interrupted: a step that can be taken is taken
FairEnum == SpecEnum /\ WF_vars(NextEnum)

\* the cells whose instances were gone through so far, as (cell, depth, path)
Visited == {effects[k][2] : k \in {j \in DOMAIN effects : effects[j][1] = "each_inst"}}

\* an instance that leads back to a cell of the path of its parent
BackReference(e, k) ==
    /\ ValidCell(each_inst(e.cell)[k].child)
    /\ each_inst(e.cell)[k].child \in Range(e.path_idx)

NoCellTwice(path_idx) == Cardinality(Range(path_idx)) = Len(path_idx)

\* no path on the stack holds a cell twice, and the flag is set exactly when a
\* back-reference was met
CycleSafe ==
    (Enum /\ pc \in {"Walk", "Done"}) =>
        /\ \A i \in DOMAIN stack :
              /\ NoCellTwice(stack[i].path_idx)
              /\ stack[i].path_idx[Len(stack[i].path_idx)] = stack[i].cell
              /\ Len(stack[i].path_idx) = stack[i].depth + 1
        /\ \A e \in Visited : NoCellTwice(e.path_idx)
        /\ summary.cycle_detected <=>
              \E e \in Visited : \E k \in DOMAIN each_inst(e.cell) : BackReference(e, k)

\* C28: the enumeration of instances terminates on every finite hierarchy, also
\* when a cell instantiates one of its ancestors: a child that is on the path
\* from the root to its parent is never pushed, no path on the stack holds a cell
\* twice, and summary.cycle_detected is true exactly when such a back-reference
\* was met.
C28_EnumerationTerminates == []CycleSafe /\ <>(Enum /\ Terminal)

\* C28: the walk ended on a hierarchy with a back-reference below the root
C28_Witness ==
    /\ Enum /\ pc = "Done" /\ summary.cycle_detected
    /\ \E e \in Visited : e.depth >= 1 /\ \E k \in DOMAIN each_inst(e.cell) : BackReference(e, k)

\* the paths of distinct cells that lead from the root down the hierarchy
SimplePaths ==
    {p \in UNION {[1..n -> CellIndices] : n \in 1..Cardinality(CellIndices)} :
        /\ p[1] = 0
        /\ NoCellTwice(p)
        /\ \A j \in 1..(Len(p) - 1) :
              \E k \in DOMAIN each_inst(p[j]) : each_inst(p[j])[k].child = p[j + 1]}

\* the records emitted for instance k of the cell at the end of path p
RecordsOf(p, k) == {i \in DOMAIN records : records[i].path = p /\ records[i].inst = k}

RECURSIVE SumCounts(_)
SumCounts(by_depth) ==
    IF DOMAIN by_depth = {} THEN 0
    ELSE LET d == CHOOSE x \in DOMAIN by_depth : TRUE
         IN  by_depth[d] + SumCounts([x \in DOMAIN by_depth \ {d} |-> by_depth[x]])

\* what the claim says of the records, of the instances in the window and of the
\* counters
WindowRespected ==
    /\ \A i \in DOMAIN records :
          /\ args.start_hier <= records[i].depth
          /\ args.end_hier < 0 \/ records[i].depth <= args.end_hier
          /\ records[i].depth = Len(records[i].path)
    /\ pc = "Done" =>
          /\ \A p \in SimplePaths : \A k \in DOMAIN each_inst(p[Len(p)]) :
                LET cia == each_inst(p[Len(p)])[k]
                    inside == /\ args.start_hier <= Len(p)
                              /\ args.end_hier < 0 \/ Len(p) <= args.end_hier
                IN  ValidCell(cia.child) =>
                       Cardinality(RecordsOf(p, k)) =
                          IF ~inside THEN 0
                          ELSE IF cia.is_array /\ args.expand_array THEN cia.nx * cia.ny
                          ELSE 1
          /\ summary.count = Len(records)
          /\ summary.count = SumCounts(summary.by_depth)
          /\ ret.val.summary = summary /\ ret.val.records = records

\* C29: every emitted record has start_hier <= depth and (end_hier < 0 or
\* depth <= end_hier); every instance reachable from the root at a depth inside
\* the window and not cut off by cycle detection is emitted; no cell at depth
\* >= end_hier is expanded when end_hier >= 0; at the end summary.count is the
\* number of records and the sum of the summary.by_depth counters.
C29_DepthWindow ==
    (Enum /\ pc \in {"Walk", "Done"}) =>
        /\ WindowRespected
        /\ args.end_hier >= 0 => \A e \in Visited : e.depth < args.end_hier

\* C29, with the root set apart: the root is always expanded, also when
\* end_hier = 0; no other cell at depth >= end_hier is expanded when end_hier >= 0.
C29_DepthWindowBelowRoot ==
    (Enum /\ pc \in {"Walk", "Done"}) =>
        /\ WindowRespected
        /\ args.end_hier >= 0 =>
              \A e \in Visited : e.depth < args.end_hier \/ e = [cell |-> 0, depth |-> 0,
                                                                 path_idx |-> <<0>>]

\* C29: a walk cut at depth 1 that left instances of depth 2 out and emitted
\* those of depth 1
C29_Witness ==
    /\ Enum /\ pc = "Done" /\ args.end_hier = 1 /\ args.start_hier <= 1
    /\ records # << >>
    /\ \E p \in SimplePaths : Len(p) = 2 /\ each_inst(p[2]) # << >>
    /\ \A e \in Visited : e.depth = 0

-----------------------------------------------------------------------------
(* The robust program alone, run to its end *)

InitRobust ==
    /\ Init
    /\ args.prog = "robust"

NextRobust ==
    \/ robust_load
    \/ robust_collect
    \/ robust_check
    \/ robust_estimate_x
    \/ robust_assign_columns
    \/ robust_estimate_y

\* main runs to its end: nothing suspends it
FairRobust == InitRobust /\ [][NextRobust]_vars /\ WF_vars(NextRobust)

=============================================================================
